---- MODULE Spec2Model ----
(***************************************************************************)
(* A model of mod_ssl_ct.c (Certificate Transparency for httpd): the SCT   *)
(* codec (parse_sct, the framed SCT-list format), the log trust registry   *)
(* (try_verify_signature) and the proxy-side aggregator/validator          *)
(* (ssl_ct_ssl_proxy_verify, the extension and OCSP callbacks,             *)
(* ssl_ct_ssl_proxy_post_handshake, validate_server_data) with its         *)
(* process-wide validation cache.                                          *)
(*                                                                         *)
(* Bytes are naturals 0..255 and buffers are sequences of bytes.  The C    *)
(* status codes are strings.  A size_t that the code lets run below zero   *)
(* is kept as the negative integer it wrapped from (see ULt).              *)
(***************************************************************************)
EXTENDS Integers, Sequences, FiniteSets, TLC

VARIABLES
    now,                 \* apr_time_now(), microseconds
    sconf,               \* ct_server_config of the server handling the connections
    peer,                \* what backend servers can present on each channel
    conn,                \* per connection: ct_conn_config and the hook's position
    cached_server_data,  \* the process-wide validation cache: key -> validation_result
    proc_alive,          \* FALSE once the child process has faulted or exited
    p_sct, p_cc, p_res,  \* parse_sct: input bytes, certificate chain, result
    f_xs, f_res,         \* framed SCT list: the SCTs collated, the decoded result
    sct_dirs,            \* per certificate directory: file name -> data and mtime
    ctconf,              \* the CTLogs and CTMaxSCTAge settings of this generation
    daemon,              \* the process running refresh_all_scts and its position
    ssl_ct_sct_update,   \* the global mutex: NULL or its holder
    reader,              \* a child process in read_scts and what it has read
    hist,                \* history of the refreshes, for the properties
    faults_left,         \* failures the environment may still inject
    audit,               \* the child's audit file, audit_file_nonempty, and writes
    oc,                  \* the daemon as the parent process's other-child record has it
    servers              \* the module configuration of each server, and its use

connVars   == <<now, sconf, peer, conn, cached_server_data, proc_alive>>
parseVars  == <<p_sct, p_cc, p_res>>
framedVars == <<f_xs, f_res>>
parentVars == <<oc, servers>>
storeVars  == <<sct_dirs, ctconf, daemon, ssl_ct_sct_update, reader, hist>>
vars       == <<connVars, parseVars, framedVars, parentVars, storeVars, faults_left,
                audit>>

-----------------------------------------------------------------------------
(* Status codes and constants of the source *)

APR_SUCCESS  == "APR_SUCCESS"
APR_EINVAL   == "APR_EINVAL"
APR_NOTFOUND == "APR_NOTFOUND"
APR_EGENERAL == "APR_EGENERAL"
APR_ENOENT == "APR_ENOENT"
OK             == "OK"
HTTP_FORBIDDEN == "HTTP_FORBIDDEN"
SIGSEGV      == "SIGSEGV"      \* the process faulted; nothing was returned

\* A pointer is NULL or Ptr(x), the object x it points to.
NULL == <<>>

Ptr(x) == <<x>>

Deref(p) == p[1]

LOG_ID_SIZE == 32
SCT_HEADER_SIZE == 41          \* 1 + LOG_ID_SIZE + 8
SIGNED_DATA_BUF == 1000000
MAX_SCTS_SIZE == 10000
USEC_PER_MSEC == 1000

PROXY_OBLIVIOUS == "PROXY_OBLIVIOUS"
PROXY_AWARE     == "PROXY_AWARE"
PROXY_REQUIRE   == "PROXY_REQUIRE"

-----------------------------------------------------------------------------
(* Byte-level helpers (ssl_ct_util.c, big-endian) *)

Zeros(n) == [i \in 1..n |-> 0]

Fill(n, b) == [i \in 1..n |-> b]

ctutil_serialize_uint8(v) == <<v % 256>>

ctutil_serialize_uint16(v) == <<(v \div 256) % 256, v % 256>>

ctutil_serialize_uint24(v) == <<(v \div 65536) % 256, (v \div 256) % 256, v % 256>>

\* The model's 64-bit values stay below 2^24: the five high bytes are zero.
ctutil_serialize_uint64(v) == Zeros(5) \o ctutil_serialize_uint24(v)

RECURSIVE BigEndian(_)
BigEndian(b) ==
    IF Len(b) = 0 THEN 0
    ELSE 256 * BigEndian(SubSeq(b, 1, Len(b) - 1)) + b[Len(b)]

ctutil_deserialize_uint16(b) == BigEndian(SubSeq(b, 1, 2))

ctutil_deserialize_uint64(b) == BigEndian(SubSeq(b, 1, 8))

\* ctutil_write_var24_bytes / ctutil_write_var16_bytes: a length prefix, then
\* the bytes; the prefix must be able to hold the length.
ctutil_write_var24_bytes(data) ==
    IF Len(data) >= 16777216 THEN [rv |-> APR_EINVAL, bytes |-> <<>>]
    ELSE [rv |-> APR_SUCCESS, bytes |-> ctutil_serialize_uint24(Len(data)) \o data]

ctutil_write_var16_bytes(data) ==
    IF Len(data) >= 65536 THEN [rv |-> APR_EINVAL, bytes |-> <<>>]
    ELSE [rv |-> APR_SUCCESS, bytes |-> ctutil_serialize_uint16(Len(data)) \o data]

\* Unsigned (size_t) "less than" on values kept as the integers they wrapped
\* from: a negative v stands for 2^64 + v, larger than every value the model
\* reaches from above zero.
ULt(x, y) ==
    IF x >= 0 /\ y >= 0 THEN x < y
    ELSE IF x < 0 /\ y < 0 THEN x < y
    ELSE y < 0

\* n bytes of memory starting at 1-based offset off of buffer buf; what lies
\* after the buffer's end is not the buffer's: it reads as junk.
MemRange(buf, off, n, junk) ==
    [i \in 1..n |-> IF off + i - 1 <= Len(buf) THEN buf[off + i - 1] ELSE junk]

-----------------------------------------------------------------------------
(* Certificates and the signature scheme *)

\* i2d_X509: the DER encoding of a certificate.
i2d_X509(x) == x.der

\* An ideal signature scheme: the signature of data under the key pair named
\* k is one byte naming the key followed by the data (no two (key, data)
\* pairs share a signature); EVP_VerifyFinal accepts exactly that string.
SignatureOf(k, data) == <<k>> \o data

EVP_VerifyFinal(data, sig, pkey) == sig = SignatureOf(pkey, data)

-----------------------------------------------------------------------------
(* parse_sct *)

ZeroFields ==
    [version |-> 0, logid |-> Zeros(LOG_ID_SIZE), timestamp |-> 0, time |-> 0,
     extensions |-> NULL, extlen |-> 0, hash_alg |-> 0, sig_alg |-> 0,
     siglen |-> 0, sig |-> NULL, signed_data |-> NULL, signed_data_len |-> 0]

\* A result of parse_sct: the status, the fields as they stand at the return,
\* whether a byte beyond the input's end was read (read_beyond) and whether a
\* recorded (pointer, length) field reaches beyond it (points_beyond).
ParseResult(rv, fields, rb, pb) ==
    [rv |-> rv, fields |-> fields, read_beyond |-> rb, points_beyond |-> pb]

\* The signed data with the certificate behind a 16-bit length.
SignedDataCert16(fields, cc) ==
    LET der  == i2d_X509(Deref(cc).leaf)
        exts == IF fields.extensions = NULL THEN <<>> ELSE Deref(fields.extensions)
    IN  [rv |-> APR_SUCCESS,
         bytes |-> <<0, 0>> \o ctutil_serialize_uint64(fields.timestamp) \o <<0, 0>>
                   \o ctutil_serialize_uint16(Len(der)) \o der
                   \o ctutil_serialize_uint16(Len(exts)) \o exts]

\* Lines 374-432: the signed data, rebuilt when the chain is known.
SignedData(fields, cc) ==
    LET der   == i2d_X509(Deref(cc).leaf)
        v24   == ctutil_write_var24_bytes(der)
        exts  == IF fields.extensions = NULL THEN <<>> ELSE Deref(fields.extensions)
        v16   == ctutil_write_var16_bytes(exts)
        bytes == ctutil_serialize_uint8(0) \o ctutil_serialize_uint8(0)
                 \o ctutil_serialize_uint64(fields.timestamp)
                 \o ctutil_serialize_uint16(0)
                 \o v24.bytes \o v16.bytes
    IN  IF v24.rv # APR_SUCCESS THEN [rv |-> v24.rv, bytes |-> <<>>]
        ELSE IF v16.rv # APR_SUCCESS THEN [rv |-> v16.rv, bytes |-> <<>>]
        ELSE IF Len(bytes) > SIGNED_DATA_BUF THEN [rv |-> APR_EINVAL, bytes |-> <<>>]
        ELSE [rv |-> APR_SUCCESS, bytes |-> bytes]

\* Lines 352-447: hash and signature algorithm, the signature, the signed data.
\* cur is the 1-based offset of the next byte, len the size_t left.
ParseSignature(sct, cc, junk, f0, cur, len, rb0, pb0) ==
    LET n   == Len(sct)
        hs  == MemRange(sct, cur, 4, junk)
        rb  == rb0 \/ cur + 3 > n
        f1  == [f0 EXCEPT !.hash_alg = hs[1], !.sig_alg = hs[2],
                          !.siglen = ctutil_deserialize_uint16(SubSeq(hs, 3, 4))]
        l1  == len - 4
        c1  == cur + 4
    IN  IF ULt(f1.siglen, l1)
        THEN ParseResult(APR_EINVAL, f1, rb, pb0)
        ELSE
            LET f2 == [f1 EXCEPT !.sig = Ptr(MemRange(sct, c1, f1.siglen, junk))]
                pb == pb0 \/ c1 + f1.siglen - 1 > n
            IN  IF cc = NULL
                THEN ParseResult(APR_SUCCESS, f2, rb, pb)
                ELSE
                    LET sd == SignedData(f2, cc)
                    IN  IF sd.rv # APR_SUCCESS
                        THEN ParseResult(sd.rv, f2, rb, pb)
                        ELSE ParseResult(APR_SUCCESS,
                                 [f2 EXCEPT !.signed_data = Ptr(sd.bytes),
                                            !.signed_data_len = Len(sd.bytes)],
                                 rb, pb)

\* Lines 317-350: the extensions.
ParseExtensions(sct, cc, junk, f0) ==
    LET n   == Len(sct)
        l0  == n - SCT_HEADER_SIZE
    IN  IF l0 < 2
        THEN ParseResult(APR_EINVAL, f0, FALSE, FALSE)
        ELSE
            LET f1 == [f0 EXCEPT !.extlen =
                          ctutil_deserialize_uint16(SubSeq(sct, SCT_HEADER_SIZE + 1,
                                                           SCT_HEADER_SIZE + 2))]
                l1 == l0 - 2
                c1 == SCT_HEADER_SIZE + 3
            IN  IF f1.extlen # 0
                THEN IF f1.extlen < l1
                     THEN ParseResult(APR_EINVAL, f1, FALSE, FALSE)
                     ELSE
                        LET f2 == [f1 EXCEPT !.extensions =
                                       Ptr(MemRange(sct, c1, f1.extlen, junk))]
                            l2 == l1 - f1.extlen
                            c2 == c1 + f1.extlen
                            pb == c2 - 1 > n
                        IN  IF ULt(l2, 4)
                            THEN ParseResult(APR_EINVAL, f2, FALSE, pb)
                            ELSE ParseSignature(sct, cc, junk, f2, c2, l2, FALSE, pb)
                ELSE IF ULt(l1, 4)
                     THEN ParseResult(APR_EINVAL, f1, FALSE, FALSE)
                     ELSE ParseSignature(sct, cc, junk, f1, c1, l1, FALSE, FALSE)

\* parse_sct(source, s, sct, len, cc, fields); junk is what the memory after
\* the buffer holds where the code reads it.
parse_sct(sct, cc, junk) ==
    IF Len(sct) < SCT_HEADER_SIZE
    THEN ParseResult(APR_EINVAL, ZeroFields, FALSE, FALSE)
    ELSE
        LET ts == ctutil_deserialize_uint64(SubSeq(sct, 2 + LOG_ID_SIZE, SCT_HEADER_SIZE))
            f0 == [ZeroFields EXCEPT !.version = sct[1],
                                     !.logid = SubSeq(sct, 2, 1 + LOG_ID_SIZE),
                                     !.timestamp = ts,
                                     !.time = ts * USEC_PER_MSEC]
        IN  ParseExtensions(sct, cc, junk, f0)

-----------------------------------------------------------------------------
(* The log trust registry *)

\* verify_signature(sctf, pkey): EVP_VerifyFinal over the signed data.
verify_signature(sctf, pkey) ==
    IF sctf.signed_data = NULL THEN APR_EINVAL
    ELSE IF EVP_VerifyFinal(Deref(sctf.signed_data), Deref(sctf.sig), pkey)
         THEN APR_SUCCESS
         ELSE APR_EINVAL

\* A lookup that goes on to the next entry when the signature does not verify
\* under the matching one.
RECURSIVE TryVerifyPastMismatch(_, _, _, _)
TryVerifyPastMismatch(i, sctf, log_public_keys, log_ids) ==
    IF i > Len(log_public_keys) THEN APR_NOTFOUND
    ELSE IF log_ids[i] = sctf.logid
            /\ verify_signature(sctf, log_public_keys[i]) = APR_SUCCESS
         THEN APR_SUCCESS
         ELSE TryVerifyPastMismatch(i + 1, sctf, log_public_keys, log_ids)

\* try_verify_signature: the first entry whose log id equals the SCT's decides.
RECURSIVE TryVerifyFrom(_, _, _, _)
TryVerifyFrom(i, sctf, log_public_keys, log_ids) ==
    IF i > Len(log_public_keys) THEN APR_NOTFOUND
    ELSE IF log_ids[i] = sctf.logid
         THEN verify_signature(sctf, log_public_keys[i])
         ELSE TryVerifyFrom(i + 1, sctf, log_public_keys, log_ids)

try_verify_signature(sctf, log_public_keys, log_ids) ==
    TryVerifyFrom(1, sctf, log_public_keys, log_ids)

\* Whether try_verify_signature reaches verify_signature, which reads the
\* siglen bytes at sig.
ReadsSignature(sctf, log_ids) ==
    \E i \in 1..Len(log_ids) : log_ids[i] = sctf.logid

-----------------------------------------------------------------------------
(* The framed SCT list: u16 length of the rest, then (u16 length, bytes)* *)

\* ctutil_read_var_bytes: a 16-bit length, then that many bytes.
ctutil_read_var_bytes(mem) ==
    IF Len(mem) < 2
    THEN [rv |-> APR_EINVAL, data |-> <<>>, rest |-> mem]
    ELSE
        LET n == ctutil_deserialize_uint16(mem)
        IN  IF n > Len(mem) - 2
            THEN [rv |-> APR_EINVAL, data |-> <<>>, rest |-> SubSeq(mem, 3, Len(mem))]
            ELSE [rv |-> APR_SUCCESS, data |-> SubSeq(mem, 3, 2 + n),
                  rest |-> SubSeq(mem, 3 + n, Len(mem))]

\* Lines 1473-1482: push each entry until one cannot be read or none is left.
RECURSIVE ReadEntries(_, _)
ReadEntries(mem, all_scts) ==
    IF Len(mem) = 0 THEN [rv |-> APR_SUCCESS, avail |-> 0, all_scts |-> all_scts]
    ELSE
        LET r == ctutil_read_var_bytes(mem)
        IN  IF r.rv # APR_SUCCESS
            THEN [rv |-> r.rv, avail |-> Len(r.rest), all_scts |-> all_scts]
            ELSE ReadEntries(r.rest, Append(all_scts, r.data))

\* deserialize_SCTs(p, conncfg, sct_list, sct_list_size): the status and
\* conncfg->all_scts as it is left.
deserialize_SCTs(all_scts, sct_list) ==
    LET outer == ctutil_read_var_bytes(sct_list)
    IN  IF outer.rv # APR_SUCCESS
        THEN [rv |-> outer.rv, all_scts |-> all_scts]
        ELSE IF Len(outer.data) + 2 # Len(sct_list)
        THEN [rv |-> APR_EINVAL, all_scts |-> all_scts]
        ELSE
            LET r == ReadEntries(SubSeq(sct_list, 3, Len(sct_list)), all_scts)
            IN  IF r.rv = APR_SUCCESS /\ r.avail # 0
                THEN [rv |-> APR_EINVAL, all_scts |-> r.all_scts]
                ELSE [rv |-> APR_SUCCESS, all_scts |-> r.all_scts]

\* collate_scts, lines 522-596: what is written to the collated file for the
\* SCTs xs that are included, in order; overall_len is an apr_uint16_t.
RECURSIVE CollatedEntries(_)
CollatedEntries(xs) ==
    IF Len(xs) = 0 THEN <<>>
    ELSE ctutil_serialize_uint16(Len(Head(xs)) % 65536) \o Head(xs)
         \o CollatedEntries(Tail(xs))

RECURSIVE OverallLen(_)
OverallLen(xs) ==
    IF Len(xs) = 0 THEN 0
    ELSE (OverallLen(SubSeq(xs, 1, Len(xs) - 1)) + Len(xs[Len(xs)]) + 2) % 65536

\* The entries without the overall length in front.
CollatedBlobNoOverallLen(xs) == CollatedEntries(xs)

CollatedBlob(xs) == ctutil_serialize_uint16(OverallLen(xs)) \o CollatedEntries(xs)

-----------------------------------------------------------------------------
(* validate_server_data *)

\* What the memory after a buffer can hold where the code reads it.
Junk == {0, 255}

\* Lines 1527-1551: the three channels, in this order, while none has failed.
DeserializeChannels(conncfg) ==
    LET a0 == IF conncfg.all_scts = NULL THEN <<>> ELSE Deref(conncfg.all_scts)
        r1 == IF conncfg.cert_sct_list # NULL
              THEN deserialize_SCTs(a0, Deref(conncfg.cert_sct_list))
              ELSE [rv |-> APR_SUCCESS, all_scts |-> a0]
        r2 == IF r1.rv = APR_SUCCESS /\ conncfg.serverhello_sct_list # NULL
              THEN deserialize_SCTs(r1.all_scts, Deref(conncfg.serverhello_sct_list))
              ELSE r1
        r3 == IF r2.rv = APR_SUCCESS /\ conncfg.ocsp_sct_list # NULL
              THEN deserialize_SCTs(r2.all_scts, Deref(conncfg.ocsp_sct_list))
              ELSE r2
    IN  r3

\* The locals of validate_server_data, with the numbers of parse_sct and
\* verify_signature calls made and whether a read beyond a buffer faulted.
\* t_now is what apr_time_now() returned in the loop.
ZeroTally(rv, all_scts) ==
    [rv |-> rv, all_scts |-> all_scts, looped |-> FALSE,
     verification_failures |-> 0, verification_successes |-> 0,
     unknown_log_ids |-> 0, parse_failures |-> 0,
     nparse |-> 0, nverify |-> 0, fault |-> FALSE, t_now |-> 0]

\* Lines 1573-1613: one SCT of the loop.  junk is what reads beyond the SCT's
\* end return; with fault, such a read faults.
TallyStep(sct, cc, sc, t_now, t, junk, fault) ==
    LET pr == parse_sct(sct, cc, junk)
        t1 == [t EXCEPT !.nparse = @ + 1]
    IN  IF t.fault THEN t
        ELSE IF pr.read_beyond /\ fault THEN [t1 EXCEPT !.fault = TRUE]
        ELSE IF pr.rv # APR_SUCCESS
        THEN [t1 EXCEPT !.rv = pr.rv, !.parse_failures = @ + 1]
        ELSE
            LET t2 == IF pr.fields.time > t_now
                      THEN [t1 EXCEPT !.verification_failures = @ + 1]
                      ELSE t1
            IN  IF sc.log_public_keys = NULL
                THEN [t2 EXCEPT !.unknown_log_ids = @ + 1]
                ELSE
                    LET keys  == Deref(sc.log_public_keys)
                        ids   == Deref(sc.log_ids)
                        tmprv == try_verify_signature(pr.fields, keys, ids)
                        reads == ReadsSignature(pr.fields, ids)
                        t3    == IF reads THEN [t2 EXCEPT !.nverify = @ + 1] ELSE t2
                    IN  IF reads /\ pr.points_beyond /\ fault
                        THEN [t3 EXCEPT !.fault = TRUE]
                        ELSE IF tmprv = APR_NOTFOUND
                        THEN [t3 EXCEPT !.unknown_log_ids = @ + 1]
                        ELSE IF tmprv # APR_SUCCESS
                        THEN [t3 EXCEPT !.verification_failures = @ + 1]
                        ELSE [t3 EXCEPT !.verification_successes = @ + 1]

\* The loop from SCT i on: every tally it can end with.
RECURSIVE TallyFrom(_, _, _, _, _, _)
TallyFrom(scts, i, cc, sc, t_now, t) ==
    IF i > Len(scts) THEN {t}
    ELSE UNION { TallyFrom(scts, i + 1, cc, sc, t_now,
                           TallyStep(scts[i], cc, sc, t_now, t, junk, fault))
                 : junk \in Junk, fault \in BOOLEAN }

\* Lines 1615-1618: no SCT valid and some invalid.
FinalVerdict(t) ==
    IF t.verification_failures > 0 /\ t.verification_successes = 0
    THEN [t EXCEPT !.rv = APR_EINVAL]
    ELSE t

\* A validation that takes a list of no SCT for a list with nothing wrong.
validate_server_data_unchecked(cc, conncfg, sc, t_now) ==
    LET d == DeserializeChannels(conncfg)
    IN  IF d.rv # APR_SUCCESS THEN {ZeroTally(d.rv, d.all_scts)}
        ELSE { FinalVerdict(t) :
               t \in TallyFrom(d.all_scts, 1, cc, sc, t_now,
                               [ZeroTally(APR_SUCCESS, d.all_scts)
                                   EXCEPT !.looped = TRUE, !.t_now = t_now]) }

\* validate_server_data(p, c, cc, conncfg, sconf): every outcome it can have.
validate_server_data(cc, conncfg, sc, t_now) ==
    LET d == DeserializeChannels(conncfg)
    IN  IF d.rv # APR_SUCCESS THEN {ZeroTally(d.rv, d.all_scts)}
        ELSE IF Len(d.all_scts) < 1 THEN {ZeroTally(APR_EINVAL, d.all_scts)}
        ELSE { FinalVerdict(t) :
               t \in TallyFrom(d.all_scts, 1, cc, sc, t_now,
                               [ZeroTally(APR_SUCCESS, d.all_scts)
                                   EXCEPT !.looped = TRUE, !.t_now = t_now]) }

-----------------------------------------------------------------------------
(* The cache key *)

\* SHA-256 as a collision-free digest of fixed length: the digest of x is a
\* token that names x.
SHA256(x) == [sha256 |-> x]

\* apr_pescape_hex of a digest: a string of fixed length that names it.
apr_pescape_hex(d) == <<[hex |-> d]>>

get_cert_fingerprint(x) == apr_pescape_hex(SHA256(i2d_X509(x)))

\* gen_key(c, cc, conncfg): the digest of the fingerprint string followed by
\* the bytes of each channel that delivered any.
gen_key(cc, conncfg) ==
    LET fp == get_cert_fingerprint(Deref(cc).leaf)
        b1 == IF conncfg.cert_sct_list # NULL THEN Deref(conncfg.cert_sct_list) ELSE <<>>
        b2 == IF conncfg.serverhello_sct_list # NULL
              THEN Deref(conncfg.serverhello_sct_list) ELSE <<>>
        b3 == IF conncfg.ocsp_sct_list # NULL THEN Deref(conncfg.ocsp_sct_list) ELSE <<>>
    IN  apr_pescape_hex(SHA256(fp \o b1 \o b2 \o b3))

-----------------------------------------------------------------------------
(* The audit file of a child process *)

\* The failures the environment may inject at a step.
Faults(kinds) == IF faults_left > 0 THEN {"none"} \cup kinds ELSE {"none"}
FaultsAfter(fault) == IF fault = "none" THEN faults_left ELSE faults_left - 1

SERVER_START == 1
CERT_START == 2
SCT_START == 3

ctutil_file_write_uint16(val) == ctutil_serialize_uint16(val % 65536)

RECURSIVE AuditCerts(_)
AuditCerts(cert_arr) ==
    IF Len(cert_arr) = 0 THEN <<>>
    ELSE ctutil_file_write_uint16(CERT_START)
         \o ctutil_file_write_uint16(Len(i2d_X509(Head(cert_arr))))
         \o i2d_X509(Head(cert_arr))
         \o AuditCerts(Tail(cert_arr))

RECURSIVE AuditScts(_)
AuditScts(all_scts) ==
    IF Len(all_scts) = 0 THEN <<>>
    ELSE ctutil_file_write_uint16(SCT_START)
         \o ctutil_file_write_uint16(Len(Head(all_scts)))
         \o Head(all_scts)
         \o AuditScts(Tail(all_scts))

\* What one call of save_server_data writes: the chain, leaf first, then
\* every SCT of conncfg->all_scts.
AuditRecord(cc, all_scts) ==
    ctutil_file_write_uint16(SERVER_START) \o AuditCerts(cc.cert_arr)
    \o AuditScts(all_scts)

\* The audit file as ssl_ct_child_init leaves it: open under its active
\* name when the proxy is not oblivious, not there when the open failed,
\* and nothing under the permanent name (lines 2319-2345).  registered: the
\* cleanup inactivate_audit_file is registered; inactivated and exit_fault
\* record that it ran and what failed in it.
ChildAudit(audit_file) ==
    [audit_file |-> audit_file, audit_file_nonempty |-> FALSE,
     exists |-> (audit_file # NULL), contents |-> <<>>, writes |-> <<>>,
     perm |-> NULL, registered |-> (audit_file # NULL),
     inactivated |-> FALSE, exit_fault |-> "none", mutex |-> NULL]

\* A save_server_data that goes on writing after a failed write.
save_server_data_keep_open(au, who, cc, all_scts, fault) ==
    IF fault = "write"
    THEN [au EXCEPT !.audit_file_nonempty = TRUE,
                    !.writes = Append(@, [who EXCEPT !.outcome = "failed"])]
    ELSE [au EXCEPT !.audit_file_nonempty = TRUE,
                    !.contents = Append(@, AuditRecord(cc, all_scts)),
                    !.writes = Append(@, [who EXCEPT !.outcome = "written"])]

\* save_server_data(c, cc, conncfg): nothing without an open audit file; a
\* write that fails closes the file, forgets it and removes it.  The
\* history keeps who called, and what came of it.
save_server_data(au, who, cc, all_scts, fault) ==
    IF au.audit_file = NULL
    THEN [au EXCEPT !.writes = Append(@, [who EXCEPT !.outcome = "disabled"])]
    ELSE IF fault = "write"
    THEN [au EXCEPT !.audit_file = NULL, !.audit_file_nonempty = TRUE,
                    !.exists = FALSE, !.contents = <<>>,
                    !.writes = Append(@, [who EXCEPT !.outcome = "failed"])]
    ELSE [au EXCEPT !.audit_file_nonempty = TRUE,
                    !.contents = Append(@, AuditRecord(cc, all_scts)),
                    !.writes = Append(@, [who EXCEPT !.outcome = "written"])]

\* Line 2240: the file is renamed when a record was begun.
\* (RenamesAlways: the file is renamed whatever was written.)
RenamesAlways(nonempty) == TRUE
RenamesAtExit(nonempty) == nonempty

\* inactivate_audit_file(s): nothing when save_server_data has given the file
\* up; else the file is closed and forgotten, and, when the close succeeded,
\* renamed to its permanent name or removed.  A close or a rename that fails
\* leaves the file under its active name.
InactivatedAudit(au, fault) ==
    LET a0 == [au EXCEPT !.inactivated = TRUE, !.exit_fault = fault]
    IN  IF au.audit_file = NULL THEN a0
        ELSE IF fault = "close" THEN [a0 EXCEPT !.audit_file = NULL]
        ELSE IF RenamesAtExit(au.audit_file_nonempty)
        THEN IF fault = "rename" THEN [a0 EXCEPT !.audit_file = NULL]
             ELSE [a0 EXCEPT !.audit_file = NULL, !.exists = FALSE,
                             !.contents = <<>>, !.perm = Ptr(au.contents)]
        ELSE [a0 EXCEPT !.audit_file = NULL, !.exists = FALSE, !.contents = <<>>]

-----------------------------------------------------------------------------
(* Connections: ct_conn_config and the proxy-side hooks *)

NConns == 2

MaxTicks == 1

Conns == 1..NConns

\* A fresh ct_conn_config (get_conn_config: apr_pcalloc), the position of the
\* connection (pc), what the hooks returned, and the locals of
\* ssl_ct_ssl_proxy_post_handshake.  leaf_seen, tally, hit, lost, saved and
\* began_after record what happened and decide nothing.  pool_destroyed
\* tells that the connection has ended and c->pool is gone.
IdleConn ==
    [peer_ct_aware |-> FALSE, certs |-> NULL,
     server_cert_has_sct_list |-> FALSE, cert_sct_list |-> NULL,
     serverhello_has_sct_list |-> FALSE, serverhello_sct_list |-> NULL,
     ocsp_has_sct_list |-> FALSE, ocsp_sct_list |-> NULL,
     all_scts |-> NULL,
     pc |-> "handshake", verify_ret |-> "none", ret |-> "none",
     key |-> NULL, rv |-> APR_SUCCESS,
     validation_error |-> FALSE, missing_sct_error |-> FALSE, cached |-> FALSE,
     leaf_seen |-> NULL, tally |-> NULL, hit |-> FALSE, lost |-> FALSE, saved |-> FALSE,
     began_after |-> {}, pool_destroyed |-> FALSE]

\* cert_chain_init(p, chain), for a chain of at least one certificate.
cert_chain_init(chain) == [cert_arr |-> chain, leaf |-> chain[1]]

\* An entry of cached_server_data holds the pointer to its key as it was
\* given to apr_hash_set, which does not copy the key: the string that
\* gen_key allocated from the pool of the connection that inserted it.  Once
\* that pool is destroyed the bytes at the key are what the allocator has put
\* there since.
KeyReadable(e) == ~conn[e.pool].pool_destroyed

\* apr_hash_get(cached_server_data, key): every result it can have.  An
\* entry inserted under the same key is found when the bytes at its key
\* still compare equal; the comparison with a key in freed memory may find
\* the entry, miss it or fault.
apr_hash_get(cache, key) ==
    LET same == {e \in cache : e.key = key}
    IN  {[cached |-> Ptr(e), fault |-> FALSE] : e \in same}
        \cup (IF \E e \in same : KeyReadable(e) THEN {}
              ELSE {[cached |-> NULL, fault |-> FALSE]})
        \cup (IF \E e \in same : ~KeyReadable(e)
              THEN {[cached |-> NULL, fault |-> TRUE]} ELSE {})

\* apr_hash_set(cached_server_data, key, new_server_data), with the pool the
\* key lives in: the value of an entry found under the key is replaced, else
\* an entry is added.
apr_hash_set(cache, key, pool, result) ==
    {e \in cache : e.key # key \/ ~KeyReadable(e)}
        \cup {[key |-> key, validation_result |-> result, pool |-> pool]}

\* ssl_ct_ssl_proxy_verify(s, c, ctx): the connection after the hook.
ProxyVerify(cfg, chain, sc) ==
    IF sc.proxy_awareness = PROXY_OBLIVIOUS
    THEN [cfg EXCEPT !.verify_ret = OK]
    ELSE IF Len(chain) < 1
    THEN [cfg EXCEPT !.verify_ret = APR_EINVAL]
    ELSE
        LET certs == cert_chain_init(chain)
            c1    == [cfg EXCEPT !.certs = Ptr(certs), !.verify_ret = OK,
                                 !.leaf_seen = Ptr(i2d_X509(certs.leaf))]
        IN  IF certs.leaf.sct_ext = NULL
            THEN c1
            ELSE
                LET c2 == [c1 EXCEPT !.server_cert_has_sct_list = TRUE,
                                     !.peer_ct_aware = TRUE]
                IN  IF ~certs.leaf.sct_ext_decodes
                    THEN c2
                    ELSE [c2 EXCEPT !.cert_sct_list = certs.leaf.sct_ext]

\* The status decided on the validation result alone.
PostHandshakeReturnValidationOnly(cfg, sc) ==
    [cfg EXCEPT !.certs = NULL, !.pc = "done",
                !.ret = IF sc.proxy_awareness = PROXY_REQUIRE /\ cfg.validation_error
                        THEN HTTP_FORBIDDEN
                        ELSE OK]

\* Lines 2029-2051: the chain is freed and the status decided.
PostHandshakeReturn(cfg, sc) ==
    [cfg EXCEPT !.certs = NULL, !.pc = "done",
                !.ret = IF sc.proxy_awareness = PROXY_REQUIRE
                           /\ (cfg.missing_sct_error \/ cfg.validation_error)
                        THEN HTTP_FORBIDDEN
                        ELSE OK]

Done == {c \in Conns : conn[c].pc = "done"}

ssl_ct_ssl_proxy_verify(c) ==
    /\ proc_alive
    /\ c \in peer.conns
    /\ conn[c].pc = "handshake"
    /\ conn[c].verify_ret = "none"
    /\ \E chain \in peer.chains :
          conn' = [conn EXCEPT ![c] = ProxyVerify(conn[c], chain, sconf)]
    /\ UNCHANGED <<now, sconf, peer, cached_server_data, proc_alive>>
    /\ UNCHANGED <<parseVars, framedVars, parentVars, storeVars, faults_left, audit>>

\* client_extension_callback_2: registered unless the server is oblivious.
client_extension_callback_2(c) ==
    /\ proc_alive
    /\ c \in peer.conns
    /\ sconf.proxy_awareness # PROXY_OBLIVIOUS
    /\ conn[c].pc = "handshake"
    /\ ~conn[c].serverhello_has_sct_list
    /\ \E in \in peer.serverhello :
          conn' = [conn EXCEPT ![c].serverhello_has_sct_list = TRUE,
                               ![c].peer_ct_aware = TRUE,
                               ![c].serverhello_sct_list = Ptr(in)]
    /\ UNCHANGED <<now, sconf, peer, cached_server_data, proc_alive>>
    /\ UNCHANGED <<parseVars, framedVars, parentVars, storeVars, faults_left, audit>>

\* ocsp_resp_cb, for a stapled response that carries an SCT list.
ocsp_resp_cb(c) ==
    /\ proc_alive
    /\ c \in peer.conns
    /\ sconf.proxy_awareness # PROXY_OBLIVIOUS
    /\ conn[c].pc = "handshake"
    /\ ~conn[c].ocsp_has_sct_list
    /\ \E oct \in peer.ocsp :
          conn' = [conn EXCEPT ![c].ocsp_has_sct_list = TRUE,
                               ![c].peer_ct_aware = TRUE,
                               ![c].ocsp_sct_list = Ptr(oct)]
    /\ UNCHANGED <<now, sconf, peer, cached_server_data, proc_alive>>
    /\ UNCHANGED <<parseVars, framedVars, parentVars, storeVars, faults_left, audit>>

\* ssl_ct_ssl_proxy_post_handshake up to the first cache lookup (lines
\* 1935-1979), and to its return when nothing is left to validate.
\* Every way it can go is returned.
PostHandshakeLookup(cfg, sc, cache, done) ==
    LET c0 == [cfg EXCEPT !.began_after = done]
    IN  IF sc.proxy_awareness = PROXY_OBLIVIOUS
        THEN {[c0 EXCEPT !.pc = "done", !.ret = OK]}
        ELSE IF c0.cert_sct_list = NULL /\ c0.serverhello_sct_list = NULL
                /\ c0.ocsp_sct_list = NULL
        THEN {PostHandshakeReturn([c0 EXCEPT !.missing_sct_error = TRUE], sc)}
        ELSE IF c0.certs = NULL
        THEN {[c0 EXCEPT !.pc = "faulted", !.ret = SIGSEGV]}
        ELSE
            LET key == gen_key(c0.certs, c0)
                c1  == [c0 EXCEPT !.key = Ptr(key)]
            IN  { IF r.fault
                  THEN [c1 EXCEPT !.pc = "faulted", !.ret = SIGSEGV]
                  ELSE IF r.cached = NULL
                  THEN [c1 EXCEPT !.pc = "validate"]
                  ELSE PostHandshakeReturn(
                          [c1 EXCEPT !.cached = TRUE, !.hit = TRUE,
                                     !.rv = Deref(r.cached).validation_result,
                                     !.validation_error =
                                         Deref(r.cached).validation_result # APR_SUCCESS],
                          sc)
                  : r \in apr_hash_get(cache, key) }

ssl_ct_ssl_proxy_post_handshake(c) ==
    /\ proc_alive
    /\ c \in peer.conns
    /\ conn[c].pc = "handshake"
    /\ \E after \in PostHandshakeLookup(conn[c], sconf, cached_server_data, Done) :
          /\ conn' = [conn EXCEPT ![c] = after]
          /\ proc_alive' = (after.pc # "faulted")
    /\ UNCHANGED <<now, sconf, peer, cached_server_data>>
    /\ UNCHANGED <<parseVars, framedVars, parentVars, storeVars, faults_left, audit>>

\* Lines 1981-1990: validate_server_data, outside any lock.
PostHandshakeValidated(cfg, t) ==
    IF t.fault
    THEN [cfg EXCEPT !.pc = "faulted", !.ret = SIGSEGV, !.tally = Ptr(t)]
    ELSE [cfg EXCEPT !.all_scts = Ptr(t.all_scts), !.rv = t.rv,
                     !.validation_error = (t.rv # APR_SUCCESS),
                     !.tally = Ptr(t), !.pc = "insert"]

PostHandshakeValidate(c) ==
    /\ proc_alive
    /\ conn[c].pc = "validate"
    /\ \E t \in validate_server_data(conn[c].certs, conn[c], sconf, now) :
          /\ conn' = [conn EXCEPT ![c] = PostHandshakeValidated(conn[c], t)]
          /\ proc_alive' = ~t.fault
    /\ UNCHANGED <<now, sconf, peer, cached_server_data>>
    /\ UNCHANGED <<parseVars, framedVars, parentVars, storeVars, faults_left, audit>>

\* Line 2011: the data is saved for audit by the connection that put a
\* successful validation in the cache.
SavesServerData(rv, cached) == rv = APR_SUCCESS /\ cached = NULL

\* Lines 1992-2013: the second lookup and the insert under the cache mutex,
\* then save_server_data for a first, successful validation.
\* r is what the second apr_hash_get returned.
PostHandshakeInserted(cfg, sc, r) ==
    LET c1 == [cfg EXCEPT !.cached = (r.cached # NULL), !.lost = (r.cached # NULL)]
        c2 == [c1 EXCEPT !.saved = SavesServerData(c1.rv, r.cached)]
    IN  IF r.fault THEN [cfg EXCEPT !.pc = "faulted", !.ret = SIGSEGV]
        ELSE IF c2.saved THEN [c2 EXCEPT !.pc = "save"]
        ELSE PostHandshakeReturn(c2, sc)

\* Lines 1994-2007: the entry of connection c is inserted when none was found.
CacheAfterInsert(c, cfg, cache, r) ==
    IF r.fault \/ r.cached # NULL
    THEN cache
    ELSE apr_hash_set(cache, Deref(cfg.key), c, cfg.rv)

PostHandshakeInsert(c) ==
    /\ proc_alive
    /\ conn[c].pc = "insert"
    /\ \E r \in apr_hash_get(cached_server_data, Deref(conn[c].key)) :
          /\ conn' = [conn EXCEPT ![c] = PostHandshakeInserted(conn[c], sconf, r)]
          /\ cached_server_data' = CacheAfterInsert(c, conn[c], cached_server_data, r)
          /\ proc_alive' = ~r.fault
    /\ UNCHANGED <<now, sconf, peer>>
    /\ UNCHANGED <<parseVars, framedVars, parentVars, storeVars, faults_left, audit>>

\* What save_server_data is called with by connection c.
SavedBy(c) ==
    [conn |-> c, key |-> Deref(conn[c].key),
     cert_arr |-> Deref(conn[c].certs).cert_arr,
     scts |-> Deref(conn[c].all_scts), outcome |-> "none"]

\* save_server_data, lines 1643-1660: nothing is done without an audit file;
\* else audit_file_mutex is taken, once no other thread holds it.
SaveServerDataLock(c) ==
    /\ proc_alive
    /\ conn[c].pc = "save"
    /\ IF audit.audit_file = NULL
       THEN /\ audit' = save_server_data(audit, SavedBy(c), Deref(conn[c].certs),
                                         Deref(conn[c].all_scts), "none")
            /\ conn' = [conn EXCEPT ![c] = PostHandshakeReturn(conn[c], sconf)]
       ELSE /\ audit.mutex = NULL
            /\ audit' = [audit EXCEPT !.mutex = Ptr(c)]
            /\ conn' = [conn EXCEPT ![c].pc = "save_locked"]
    /\ UNCHANGED <<now, sconf, peer, cached_server_data, proc_alive>>
    /\ UNCHANGED <<parseVars, framedVars, parentVars, storeVars, faults_left>>

\* ctutil_thread_mutex_unlock(audit_file_mutex), line 1726.
\* (ThreadMutexKept: a return that leaves the mutex locked.)
ThreadMutexKept(a) == a
ctutil_thread_mutex_unlock(a) == [a EXCEPT !.mutex = NULL]

\* save_server_data, lines 1662-1726: under the mutex the record is written
\* if the file is still open, and the mutex is released; the hook returns.
SaveServerDataWrite(c) ==
    /\ proc_alive
    /\ conn[c].pc = "save_locked"
    /\ \E fault \in (IF audit.audit_file # NULL THEN Faults({"write"})
                                                 ELSE {"none"}) :
          /\ audit' = ctutil_thread_mutex_unlock(
                          save_server_data(audit, SavedBy(c), Deref(conn[c].certs),
                                           Deref(conn[c].all_scts), fault))
          /\ faults_left' = FaultsAfter(fault)
    /\ conn' = [conn EXCEPT ![c] = PostHandshakeReturn(conn[c], sconf)]
    /\ UNCHANGED <<now, sconf, peer, cached_server_data, proc_alive>>
    /\ UNCHANGED <<parseVars, framedVars, parentVars, storeVars>>

\* The connection ends and httpd destroys c->pool, and with it the key string
\* that gen_key allocated there (line 1441).
connection_closed(c) ==
    /\ proc_alive
    /\ conn[c].pc = "done"
    /\ ~conn[c].pool_destroyed
    /\ conn' = [conn EXCEPT ![c].pool_destroyed = TRUE]
    /\ UNCHANGED <<now, sconf, peer, cached_server_data, proc_alive>>
    /\ UNCHANGED <<parseVars, framedVars, parentVars, storeVars, faults_left, audit>>

\* Time passes.  In a refresh pass the clock is watched between the passes
\* and between the fetches and the collation.
Tick ==
    /\ now < 1500 + 1000 * MaxTicks
    /\ daemon.pc \in {"idle", "down", "collate_open"}
    /\ now' = now + 1000
    /\ UNCHANGED <<sconf, peer, conn, cached_server_data, proc_alive>>
    /\ UNCHANGED <<parseVars, framedVars, parentVars, storeVars, faults_left, audit>>

\* The child process ends: its pool is destroyed, which runs the cleanup
\* inactivate_audit_file if ssl_ct_child_init registered it.  The cleanup runs
\* in the thread that ends the process, wherever the threads that serve
\* connections are, and takes no mutex.
inactivate_audit_file ==
    /\ proc_alive
    /\ audit.registered
    /\ \E fault \in (IF audit.audit_file = NULL THEN {"none"}
                     ELSE IF audit.audit_file_nonempty
                     THEN Faults({"close", "rename"})
                     ELSE Faults({"close"})) :
          /\ audit' = InactivatedAudit(audit, fault)
          /\ faults_left' = FaultsAfter(fault)
    /\ proc_alive' = FALSE
    /\ UNCHANGED <<now, sconf, peer, conn, cached_server_data>>
    /\ UNCHANGED <<parseVars, framedVars, parentVars, storeVars>>

-----------------------------------------------------------------------------
(* parse_sct and the framed list as operations on their own *)

ParseSct ==
    /\ p_res = NULL
    /\ \E junk \in Junk, fault \in BOOLEAN :
          LET r == parse_sct(p_sct, p_cc, junk)
          IN  p_res' = IF r.read_beyond /\ fault
                       THEN Ptr([r EXCEPT !.rv = SIGSEGV])
                       ELSE Ptr(r)
    /\ UNCHANGED <<p_sct, p_cc>>
    /\ UNCHANGED <<connVars, framedVars, parentVars, storeVars, faults_left, audit>>

\* The SCTs of a directory, each given by its size and the byte that fills it.
Entries(files) == [i \in 1..Len(files) |-> Fill(files[i].size, files[i].fill)]

\* The list collate_scts writes for the SCTs f_xs, read by deserialize_SCTs
\* into an empty all_scts.
CollateAndDeserialize ==
    /\ f_res = NULL
    /\ f_res' = Ptr(deserialize_SCTs(<<>>, CollatedBlob(Entries(f_xs))))
    /\ UNCHANGED f_xs
    /\ UNCHANGED <<connVars, parseVars, parentVars, storeVars, faults_left, audit>>

-----------------------------------------------------------------------------
(* What logs issue and what peers present *)

\* The SCT wire format: the bytes of an SCT with the given field values.
EncodeSCT(f) ==
    <<f.version>> \o f.logid \o ctutil_serialize_uint64(f.timestamp)
    \o ctutil_serialize_uint16(Len(f.extensions)) \o f.extensions
    \o <<f.hash_alg, f.sig_alg>>
    \o ctutil_serialize_uint16(Len(f.signature)) \o f.signature

\* What a log signs for an X.509 entry: version, signature type, timestamp,
\* entry type, the certificate with a 24-bit length, the extensions with a
\* 16-bit length.
LogSignedInput(timestamp, der, extensions) ==
    <<0, 0>> \o ctutil_serialize_uint64(timestamp) \o <<0, 0>>
    \o ctutil_serialize_uint24(Len(der)) \o der
    \o ctutil_serialize_uint16(Len(extensions)) \o extensions

\* The SCT that the log (logid, key) issues for a certificate.
IssueSCT(logid, key, timestamp, extensions, der) ==
    EncodeSCT([version |-> 0, logid |-> logid, timestamp |-> timestamp,
               extensions |-> extensions, hash_alg |-> 4, sig_alg |-> 3,
               signature |-> SignatureOf(key, LogSignedInput(timestamp, der,
                                                             extensions))])

LogIdA == Fill(LOG_ID_SIZE, 10)      \* a log the server is configured with
LogIdU == Fill(LOG_ID_SIZE, 11)      \* a log only LogKeysUA configures
KeyA == 65
KeyU == 85

DerX == <<48, 1>>
DerY == <<48, 2>>
DerZ == <<48, 3>>
DerCA == <<48, 9>>

sOK    == IssueSCT(LogIdA, KeyA, 1, <<>>, DerX)
sOKY   == IssueSCT(LogIdA, KeyA, 1, <<>>, DerY)
sUNK   == IssueSCT(LogIdU, KeyU, 2, <<>>, DerX)    \* not yet valid at time 1500
sFUT   == IssueSCT(LogIdA, KeyA, 3, <<>>, DerX)    \* not yet valid at 1500 and 2500
sEXT   == IssueSCT(LogIdA, KeyA, 1, <<7>>, DerX)   \* with one byte of extensions
sBAD   == EncodeSCT([version |-> 0, logid |-> LogIdA, timestamp |-> 1,
                     extensions |-> <<>>, hash_alg |-> 4, sig_alg |-> 3,
                     signature |-> <<KeyA, 0>>])
sGARB  == <<1, 2, 3>>
sTRUNC == SubSeq(sOK, 1, Len(sOK) - 1)             \* its last byte is missing

CertX  == [der |-> DerX, sct_ext |-> NULL, sct_ext_decodes |-> TRUE]
CertY  == [der |-> DerY, sct_ext |-> Ptr(CollatedBlob(<<sOKY>>)),
           sct_ext_decodes |-> TRUE]
CertZ  == [der |-> DerZ, sct_ext |-> Ptr(<<>>), sct_ext_decodes |-> FALSE]
CertCA == [der |-> DerCA, sct_ext |-> NULL, sct_ext_decodes |-> TRUE]

NoLogKeys  == [log_public_keys |-> NULL, log_ids |-> NULL]
LogKeysA   == [log_public_keys |-> Ptr(<<KeyA>>), log_ids |-> Ptr(<<LogIdA>>)]
\* Two logs configured; the second entry is the one sOK names.
LogKeysUA  == [log_public_keys |-> Ptr(<<KeyU, KeyA>>),
               log_ids |-> Ptr(<<LogIdU, LogIdA>>)]

ServerConfigs(modes, keys) ==
    {[proxy_awareness |-> m, log_public_keys |-> k.log_public_keys,
      log_ids |-> k.log_ids] : m \in modes, k \in keys}

\* A list whose overall length is right and whose second entry declares five
\* bytes where none is left.
sOverrun == ctutil_serialize_uint16(Len(sOK) + 4) \o CollatedEntries(<<sOK>>) \o <<0, 5>>

\* One connection, every kind of SCT list.
PeerValidate ==
    [conns |-> {1},
     chains |-> {<<CertX>>, <<CertY, CertCA>>, <<CertZ>>, <<>>},
     serverhello |-> {CollatedBlob(<<sOK>>), CollatedBlob(<<sBAD>>),
                      CollatedBlob(<<sUNK>>), CollatedBlob(<<sFUT>>),
                      CollatedBlob(<<sOK, sGARB>>), CollatedBlob(<<sGARB, sUNK>>),
                      CollatedBlob(<<sOK, sBAD>>), CollatedBlob(<<sEXT, sOK>>),
                      CollatedBlob(<<sTRUNC>>), CollatedBlob(<<>>), <<>>,
                      CollatedBlob(<<sOK>>) \o <<0>>,
                      SubSeq(CollatedBlob(<<sOK, sOK>>), 1, Len(sOK) + 7),
                      sOverrun},
     ocsp |-> {CollatedBlob(<<sUNK>>), CollatedBlob(<<sBAD>>)}]

\* Concurrent connections to one backend.
PeerRace ==
    [conns |-> Conns,
     chains |-> {<<CertX>>},
     serverhello |-> {CollatedBlob(<<sOK>>), CollatedBlob(<<sUNK>>)},
     ocsp |-> {CollatedBlob(<<sBAD>>)}]

MaxExtLen == 1

MaxSigLen == 2

FieldSpace ==
    {[version |-> 0, logid |-> LogIdA, timestamp |-> ts,
      extensions |-> Fill(e, 7), hash_alg |-> 4, sig_alg |-> 3,
      signature |-> Fill(g, 9)] :
        ts \in {1, 3}, e \in 0..MaxExtLen, g \in 0..MaxSigLen}

WellFormedInputs == {EncodeSCT(f) : f \in FieldSpace}

\* Every well-formed SCT, cut short at each place from the header on, and
\* with a byte added.
ParseInputs ==
    WellFormedInputs
    \cup UNION {{SubSeq(b, 1, k) : k \in {0, SCT_HEADER_SIZE - 1}
                                        \cup (SCT_HEADER_SIZE..(Len(b) - 1))}
                : b \in WellFormedInputs}
    \cup {b \o <<0>> : b \in WellFormedInputs}
    \cup {sOK, sTRUNC}

ParseChains ==
    {NULL, Ptr(cert_chain_init(<<CertX>>)), Ptr(cert_chain_init(<<CertY, CertCA>>))}

MaxEntryLen == 3

MaxEntries == 3

RECURSIVE SeqsUpTo(_, _)
SeqsUpTo(S, n) ==
    IF n = 0 THEN {<<>>}
    ELSE LET shorter == SeqsUpTo(S, n - 1)
         IN  shorter \cup {Append(xs, x) : xs \in shorter, x \in S}

\* A file of the largest size collate_scts reads (line 549).
LargestFile == [size |-> MAX_SCTS_SIZE, fill |-> 0]

\* Lists of short SCT files, and lists of the largest files whose framed size
\* is at the limit of the 16-bit overall length: 60012, 65535, 65536 and 70014
\* bytes.
FramedInputs ==
    SeqsUpTo({[size |-> n, fill |-> n] : n \in 0..MaxEntryLen}, MaxEntries)
    \cup {[i \in 1..6 |-> LargestFile],
          [i \in 1..6 |-> LargestFile] \o <<[size |-> 5521, fill |-> 0]>>,
          [i \in 1..6 |-> LargestFile] \o <<[size |-> 5522, fill |-> 0]>>,
          [i \in 1..7 |-> LargestFile]}

-----------------------------------------------------------------------------
(* The SCT store: one directory per server certificate *)

\* The log URLs of the model, and a line of the list file that is no URL.
Logs == {"A", "B", "C"}
GarbageURL == "%%"

apr_uri_parse(str) == IF str \in Logs THEN APR_SUCCESS ELSE APR_EGENERAL

\* File names of a certificate directory.
LOGLIST_BASENAME == <<"logs">>
COLLATED_SCTS_BASENAME == <<"collated">>
COLLATED_TMP == <<"collated", ".tmp">>
LOG_SCT_PREFIX == "AUTO_"
AdminSct == <<"admin", ".sct">>

\* "AUTO_<host>_<port>_<path>.sct": one name per log URL.
url_to_fn(log) == <<LOG_SCT_PREFIX, log, ".sct">>

\* A directory is a function from the names it holds to [data, mtime].
ctutil_file_exists(dir, name) == name \in DOMAIN dir

apr_file_remove(dir, name) == [n \in (DOMAIN dir) \ {name} |-> dir[n]]

FileWrite(dir, name, data, t) ==
    [n \in (DOMAIN dir) \cup {name} |->
        IF n = name THEN [data |-> data, mtime |-> t] ELSE dir[n]]

apr_file_rename(dir, from, to) ==
    [n \in ((DOMAIN dir) \ {from}) \cup {to} |->
        IF n = to THEN dir[from] ELSE dir[n]]

\* The names matching "*.sct" and "AUTO_*.sct".
\* (AllSctFiles: a pattern that matches the administrator's files too.)
SctFiles(dir) == {n \in DOMAIN dir : n[Len(n)] = ".sct"}
AllSctFiles(dir) == SctFiles(dir)
AutoSctFiles(dir) == {n \in SctFiles(dir) : n[1] = LOG_SCT_PREFIX}

\* ctutil_read_dir: the matching names in the order the file system lists
\* them, which is one of the orders of DirOrders.
SctNames == <<url_to_fn("A"), url_to_fn("B"), url_to_fn("C"), AdminSct>>
Reverse(seq) == [i \in 1..Len(seq) |-> seq[Len(seq) + 1 - i]]
DirOrders == {SctNames, Reverse(SctNames)}
ctutil_read_dir(dir_order, matching) ==
    LET Matches(n) == n \in matching IN SelectSeq(dir_order, Matches)

Members(seq) == {seq[i] : i \in 1..Len(seq)}

\* record_log_urls: the list file rewritten with the configured URLs.  An
\* open that fails leaves the file alone; a write that fails leaves it
\* truncated.
record_log_urls(dir, log_urls, t, fault) ==
    IF fault = "record_open" THEN [rv |-> APR_EGENERAL, dir |-> dir]
    ELSE IF fault = "record_write"
    THEN [rv |-> APR_EGENERAL, dir |-> FileWrite(dir, LOGLIST_BASENAME, <<>>, t)]
    ELSE [rv |-> APR_SUCCESS, dir |-> FileWrite(dir, LOGLIST_BASENAME, log_urls, t)]

\* The loop over the URLs of the old list: the SCT of a URL that is no
\* longer configured is removed.  st is [rv, dir, returned, remove_failed].
RECURSIVE RemoveUntrusted(_, _, _, _, _)
RemoveUntrusted(old, i, log_urls, st, fault) ==
    IF i > Len(old) THEN st
    ELSE IF old[i] \in Members(log_urls)
    THEN RemoveUntrusted(old, i + 1, log_urls, st, fault)
    ELSE IF apr_uri_parse(old[i]) # APR_SUCCESS
    THEN RemoveUntrusted(old, i + 1, log_urls,
                         [st EXCEPT !.rv = APR_EGENERAL], fault)
    ELSE IF ~ctutil_file_exists(st.dir, url_to_fn(old[i]))
    THEN RemoveUntrusted(old, i + 1, log_urls,
                         [st EXCEPT !.rv = APR_SUCCESS], fault)
    ELSE IF fault = "remove"
    THEN [st EXCEPT !.rv = APR_EGENERAL, !.returned = TRUE,
                    !.remove_failed = TRUE]
    ELSE RemoveUntrusted(old, i + 1, log_urls,
                         [st EXCEPT !.rv = APR_SUCCESS,
                                    !.dir = apr_file_remove(@, url_to_fn(old[i]))],
                         fault)

\* The loop over "AUTO_*.sct" when there is no list file: a removal that
\* fails is logged and the loop goes on; the failure injected is that of the
\* first removal.
RECURSIVE RemoveAuto(_, _, _, _)
RemoveAuto(order, i, st, fault) ==
    IF i > Len(order) THEN st
    ELSE IF fault = "remove" /\ i = 1
    THEN RemoveAuto(order, i + 1,
                    [st EXCEPT !.rv = APR_EGENERAL, !.remove_failed = TRUE],
                    fault)
    ELSE RemoveAuto(order, i + 1,
                    [st EXCEPT !.rv = APR_SUCCESS,
                               !.dir = apr_file_remove(@, order[i])],
                    fault)

update_log_list_for_cert(dir, log_urls, order, t, fault) ==
    LET st0 == [rv |-> APR_SUCCESS, dir |-> dir, returned |-> FALSE,
                remove_failed |-> FALSE]
        st1 == IF ctutil_file_exists(dir, LOGLIST_BASENAME)
               THEN RemoveUntrusted(dir[LOGLIST_BASENAME].data, 1, log_urls,
                                    st0, fault)
               ELSE RemoveAuto(order, 1, st0, fault)
    IN  IF st1.returned \/ st1.rv # APR_SUCCESS
        THEN st1
        ELSE LET rec == record_log_urls(st1.dir, log_urls, t, fault)
             IN  [st1 EXCEPT !.rv = rec.rv, !.dir = rec.dir]

\* The SCT a log issues for the certificate of a directory.
LogIdOf(log) == Fill(LOG_ID_SIZE, IF log = "A" THEN 10 ELSE IF log = "B" THEN 12 ELSE 13)
LogSct(log, timestamp) == IssueSCT(LogIdOf(log), KeyA, timestamp, <<>>, DerX)

\* submission: the external tool either fails, leaving the file as it was,
\* or writes the log's response to the file.  The response carries the
\* log's clock, which may run ahead of ours.
submission(dir, log, t, outcome) ==
    IF outcome = "fail" THEN [rv |-> APR_EGENERAL, dir |-> dir, ran |-> TRUE]
    ELSE [rv  |-> APR_SUCCESS,
          dir |-> FileWrite(dir, url_to_fn(log),
                            LogSct(log, IF outcome = "future"
                                        THEN (t \div USEC_PER_MSEC) + 2
                                        ELSE t \div USEC_PER_MSEC), t),
          ran |-> TRUE]

\* The clock of log B may run ahead.
LogOutcomes(log) == IF log = "B" THEN {"past", "future"} ELSE {"past"}

\* (submission_always: a fetch that does not look at the file it has.)
submission_always(dir, log, max_sct_age, t, outcome) ==
    submission(dir, log, t, outcome)

fetch_sct(dir, log, max_sct_age, t, outcome) ==
    IF ctutil_file_exists(dir, url_to_fn(log))
       /\ ~(dir[url_to_fn(log)].mtime + max_sct_age < t)
    THEN [rv |-> APR_SUCCESS, dir |-> dir, ran |-> FALSE]
    ELSE submission(dir, log, t, outcome)

\* collate_scts, the loop over "*.sct": a file too large or one that does
\* not parse ends the loop with its error, an SCT from the future is
\* skipped.  st is [rv, included].
\* (IsFutureNever: a collation that skips nothing.)
IsFutureNever(time, t) == FALSE
IsFuture(time, t) == time > t

RECURSIVE CollateFiles(_, _, _, _, _, _)
CollateFiles(dir, order, i, t, junk, st) ==
    IF i > Len(order) THEN st
    ELSE LET data == dir[order[i]].data
             pr   == parse_sct(data, NULL, junk)
         IN  IF Len(data) > MAX_SCTS_SIZE THEN [st EXCEPT !.rv = APR_EINVAL]
             ELSE IF pr.rv # APR_SUCCESS THEN [st EXCEPT !.rv = pr.rv]
             ELSE IF IsFuture(pr.fields.time, t)
             THEN CollateFiles(dir, order, i + 1, t, junk, st)
             ELSE CollateFiles(dir, order, i + 1, t, junk,
                               [st EXCEPT !.included = Append(@, data)])

\* What collate_scts leaves in the temporary file: the list with its length
\* patched in when the loop succeeded, the entries after a zero length when
\* it did not.
CollatedTmp(st) ==
    IF st.rv = APR_SUCCESS THEN CollatedBlob(st.included)
    ELSE <<0, 0>> \o CollatedEntries(st.included)

-----------------------------------------------------------------------------
(* The refresh pass (post_config, then the daemon) and the readers *)

Dirs == {"d1", "d2"}
MaxPasses == 2
MaxFaults == 1

\* What the history keeps of one call of refresh_scts_for_cert.
NewRefresh(d, dir, t) ==
    [d |-> d, urls |-> ctconf.log_urls, max_sct_age |-> ctconf.max_sct_age,
     t0 |-> t, before |-> dir,
     had_list |-> ctutil_file_exists(dir, LOGLIST_BASENAME),
     remove_failed |-> FALSE, faulted |-> FALSE, after_update |-> NULL,
     called |-> <<>>, fetched |-> {}, failed_fetch |-> NULL,
     collated |-> FALSE, tw |-> 0, skipped |-> {}, published |-> FALSE,
     rv |-> APR_SUCCESS, after |-> dir]

\* The process in refresh_all_scts and where it is: ssl_ct_post_config
\* before its refresh (pc "idle", startup), refused to start ("down"), or
\* sct_daemon at the test of its loop ("loop"), in apr_sleep ("sleep"), in
\* a pass, or gone ("exited").  flagged records that the pass began with
\* daemon_should_exit set.
IdleDaemon ==
    [pc |-> "idle", startup |-> TRUE, restarted |-> FALSE, passes |-> 0,
     di |-> 0, li |-> 0, rv |-> APR_SUCCESS, replacing |-> FALSE,
     attempted |-> {}, cur |-> NULL, daemon_should_exit |-> 0,
     flagged |-> FALSE]

CurDir == ctconf.cert_sct_dirs[daemon.di]

\* Lines 1181-1184: ssl_ct_post_config refuses to start when its refresh
\* returned anything but APR_SUCCESS.
AbortsStartup(rv) == rv # APR_SUCCESS

\* refresh_all_scts has returned rv.  In ssl_ct_post_config a failure keeps
\* the server from starting and a success starts the daemon (daemon_start
\* clears daemon_should_exit); in sct_daemon the loop goes on either way.
PassEnded(dm, rv) ==
    [dm EXCEPT !.pc = IF dm.startup /\ AbortsStartup(rv) THEN "down" ELSE "loop",
               !.startup = (dm.startup /\ AbortsStartup(rv)),
               !.daemon_should_exit = IF dm.startup THEN 0 ELSE @,
               !.rv = rv, !.di = 0, !.li = 0, !.replacing = FALSE,
               !.cur = NULL]

LastOfPass(dm, rv) == rv # APR_SUCCESS \/ dm.di = Len(ctconf.cert_sct_dirs)

RefreshReturned(dm, rv, dirs, t) ==
    IF LastOfPass(dm, rv) THEN PassEnded(dm, rv)
    ELSE LET d == ctconf.cert_sct_dirs[dm.di + 1]
         IN  [dm EXCEPT !.pc = "update", !.di = @ + 1, !.li = 0, !.rv = rv,
                        !.replacing = FALSE,
                        !.attempted = @ \cup {d},
                        !.cur = Ptr(NewRefresh(d, dirs[d], t))]

HistReturned(h, dm, rec, rv, dir) ==
    LET done == [rec EXCEPT !.rv = rv, !.after = dir]
        h1   == [h EXCEPT !.dir[rec.d] = Append(@, done)]
    IN  IF LastOfPass(dm, rv)
        THEN [h1 EXCEPT !.pass =
                 Append(@, [rv |-> rv, attempted |-> dm.attempted,
                            startup |-> dm.startup, flagged |-> dm.flagged,
                            failed |-> IF rv # APR_SUCCESS THEN Ptr(rec.d)
                                       ELSE NULL])]
        ELSE h1

\* refresh_all_scts is entered: by ssl_ct_post_config at startup, by
\* sct_daemon afterwards.  With no directory configured its rv is returned
\* as it was found on the stack.
refresh_all_scts ==
    /\ daemon.pc \in {"idle", "sleep"}
    /\ daemon.pc = "idle" => daemon.passes < MaxPasses
    /\ IF Len(ctconf.cert_sct_dirs) = 0
       THEN /\ \E rv \in {APR_SUCCESS, APR_EGENERAL} :
                  /\ daemon' = [PassEnded(daemon, rv) EXCEPT
                                   !.passes = @ + 1, !.attempted = {},
                                   !.flagged = (daemon.daemon_should_exit # 0)]
                  /\ hist' = [hist EXCEPT !.pass =
                                 Append(@, [rv |-> rv, attempted |-> {},
                                            startup |-> daemon.startup,
                                            flagged |-> (daemon.daemon_should_exit # 0),
                                            failed |-> NULL])]
       ELSE /\ daemon' = [daemon EXCEPT
                  !.pc = "update", !.passes = @ + 1, !.di = 1,
                  !.flagged = (daemon.daemon_should_exit # 0),
                  !.attempted = {ctconf.cert_sct_dirs[1]},
                  !.cur = Ptr(NewRefresh(ctconf.cert_sct_dirs[1],
                                         sct_dirs[ctconf.cert_sct_dirs[1]], now))]
            /\ UNCHANGED hist
    /\ UNCHANGED <<sct_dirs, ctconf, ssl_ct_sct_update, reader, faults_left>>
    /\ UNCHANGED <<connVars, parseVars, framedVars, parentVars, audit>>

\* sct_daemon at the test of its loop (line 1053): it leaves when
\* daemon_should_exit is set, and sleeps before its next pass otherwise.
sct_daemon ==
    /\ daemon.pc = "loop"
    /\ daemon.daemon_should_exit = 0 => daemon.passes < MaxPasses
    /\ daemon' = [daemon EXCEPT !.pc = IF daemon.daemon_should_exit # 0
                                       THEN "exited" ELSE "sleep"]
    /\ UNCHANGED <<sct_dirs, ctconf, ssl_ct_sct_update, reader, hist, faults_left>>
    /\ UNCHANGED <<connVars, parseVars, framedVars, parentVars, audit>>

MaxSignals == 1

\* daemon_signal_handler(SIGHUP) in the daemon process, wherever it is.
daemon_signal_handler ==
    /\ daemon.pc \notin {"idle", "down", "exited"}
    /\ ~daemon.startup
    /\ daemon.daemon_should_exit < MaxSignals
    /\ daemon' = [daemon EXCEPT !.daemon_should_exit = @ + 1]
    /\ UNCHANGED <<sct_dirs, ctconf, ssl_ct_sct_update, reader, hist, faults_left>>
    /\ UNCHANGED <<connVars, parseVars, framedVars, parentVars, audit>>

\* refresh_scts_for_cert, first step: update_log_list_for_cert.
UpdateLogList ==
    /\ daemon.pc = "update"
    /\ \E fault \in Faults({"remove", "record_open", "record_write"}) :
          LET order == ctutil_read_dir(ctconf.dir_order,
                                       AutoSctFiles(sct_dirs[CurDir]))
              r    == update_log_list_for_cert(sct_dirs[CurDir], ctconf.log_urls,
                                               order, now, fault)
              dirs == [sct_dirs EXCEPT ![CurDir] = r.dir]
              rec  == [Deref(daemon.cur) EXCEPT
                          !.remove_failed = r.remove_failed,
                          !.faulted = (fault # "none"),
                          !.after_update = Ptr(r.dir)]
          IN  /\ sct_dirs' = dirs
              /\ faults_left' = FaultsAfter(fault)
              /\ IF r.rv # APR_SUCCESS
                 THEN /\ daemon' = RefreshReturned(daemon, r.rv, dirs, now)
                      /\ hist' = HistReturned(hist, daemon, rec, r.rv, r.dir)
                 ELSE /\ daemon' = [daemon EXCEPT
                            !.pc = IF Len(ctconf.log_urls) = 0
                                   THEN "collate_open" ELSE "fetch",
                            !.li = 1, !.cur = Ptr(rec)]
                      /\ UNCHANGED hist
    /\ UNCHANGED <<ctconf, ssl_ct_sct_update, reader>>
    /\ UNCHANGED <<connVars, parseVars, framedVars, parentVars, audit>>

\* After fetch_sct has returned rv for log li: a failure is returned at
\* once, otherwise the next log is fetched, and collate_scts follows the
\* last one.
FetchStopsAlways(rv) == FALSE   \* (a loop that goes on after a failure)
FetchStops(rv) == rv # APR_SUCCESS

FetchSct ==
    /\ daemon.pc = "fetch"
    /\ \E outcome \in LogOutcomes(ctconf.log_urls[daemon.li])
                           \cup (Faults({"fail"}) \ {"none"}) :
          LET log  == ctconf.log_urls[daemon.li]
              r    == fetch_sct(sct_dirs[CurDir], log, ctconf.max_sct_age, now,
                                outcome)
              dirs == [sct_dirs EXCEPT ![CurDir] = r.dir]
              cur  == Deref(daemon.cur)
              rec  == [cur EXCEPT
                         !.called = Append(@, log),
                         !.faulted = (@ \/ r.rv # APR_SUCCESS),
                         !.fetched = IF r.ran /\ r.rv = APR_SUCCESS
                                     THEN @ \cup {log} ELSE @,
                         !.failed_fetch = IF r.rv # APR_SUCCESS /\ @ = NULL
                                          THEN Ptr(log) ELSE @]
          IN  /\ sct_dirs' = dirs
              /\ faults_left' = IF r.rv # APR_SUCCESS THEN faults_left - 1
                                ELSE faults_left
              /\ IF FetchStops(r.rv)
                 THEN /\ daemon' = RefreshReturned(daemon, r.rv, dirs, now)
                      /\ hist' = HistReturned(hist, daemon, rec, r.rv, r.dir)
                 ELSE /\ daemon' = [daemon EXCEPT
                            !.pc = IF daemon.li = Len(ctconf.log_urls)
                                   THEN "collate_open" ELSE "fetch",
                            !.li = @ + 1, !.cur = Ptr(rec)]
                      /\ UNCHANGED hist
    /\ UNCHANGED <<ctconf, ssl_ct_sct_update, reader>>
    /\ UNCHANGED <<connVars, parseVars, framedVars, parentVars, audit>>

\* collate_scts, first step: the temporary file is created with a zero
\* length in front.
CollateOpen ==
    /\ daemon.pc = "collate_open"
    /\ sct_dirs' = [sct_dirs EXCEPT ![CurDir] = FileWrite(@, COLLATED_TMP, <<0, 0>>, now)]
    /\ daemon' = [daemon EXCEPT !.pc = "collate_write",
                                !.cur = Ptr([Deref(@) EXCEPT !.collated = TRUE])]
    /\ UNCHANGED <<ctconf, ssl_ct_sct_update, reader, hist, faults_left>>
    /\ UNCHANGED <<connVars, parseVars, framedVars, parentVars, audit>>

\* collate_scts publishes only when the loop succeeded and wrote an SCT.
Publishes(rv, scts_written) == rv = APR_SUCCESS /\ scts_written # 0

\* collate_scts, second step: the SCT files are written to the temporary
\* file and the file is closed.
CollateWrite ==
    /\ daemon.pc = "collate_write"
    /\ \E junk \in Junk :
          LET dir  == sct_dirs[CurDir]
              order == ctutil_read_dir(ctconf.dir_order, SctFiles(dir))
              st   == CollateFiles(dir, order, 1, now, junk,
                                   [rv |-> APR_SUCCESS, included |-> <<>>])
              dir1 == FileWrite(dir, COLLATED_TMP, CollatedTmp(st), now)
              dirs == [sct_dirs EXCEPT ![CurDir] = dir1]
              rec  == [Deref(daemon.cur) EXCEPT
                         !.tw = now,
                         !.skipped = IF st.rv = APR_SUCCESS
                                     THEN {n \in SctFiles(dir) :
                                             dir[n].data \notin Members(st.included)}
                                     ELSE {}]
              h    == IF Publishes(st.rv, Len(st.included))
                      THEN [hist EXCEPT !.complete[CurDir] = @ \cup {CollatedTmp(st)}]
                      ELSE hist
          IN  /\ sct_dirs' = dirs
              /\ IF Publishes(st.rv, Len(st.included))
                 THEN /\ daemon' = [daemon EXCEPT
                            !.replacing = ctutil_file_exists(dir, COLLATED_SCTS_BASENAME),
                            !.pc = IF ctutil_file_exists(dir, COLLATED_SCTS_BASENAME)
                                   THEN "lock" ELSE "rename",
                            !.cur = Ptr(rec)]
                      /\ hist' = h
                 ELSE /\ daemon' = RefreshReturned(daemon, st.rv, dirs, now)
                      /\ hist' = HistReturned(h, daemon, rec, st.rv, dir1)
    /\ UNCHANGED <<ctconf, ssl_ct_sct_update, reader, faults_left>>
    /\ UNCHANGED <<connVars, parseVars, framedVars, parentVars, audit>>

\* apr_global_mutex_lock returns once nobody holds the mutex.
\* (MutexFreeAlways: a lock that excludes nobody.)
MutexFreeAlways(m) == TRUE
MutexFree(m) == m = NULL

\* collate_scts replacing a published file: the mutex is taken and the old
\* file removed.
CollateLockRemove ==
    /\ daemon.pc = "lock"
    /\ MutexFree(ssl_ct_sct_update)
    /\ ssl_ct_sct_update' = Ptr("daemon")
    /\ sct_dirs' = [sct_dirs EXCEPT ![CurDir] = apr_file_remove(@, COLLATED_SCTS_BASENAME)]
    /\ daemon' = [daemon EXCEPT !.pc = "rename"]
    /\ UNCHANGED <<ctconf, reader, hist, faults_left>>
    /\ UNCHANGED <<connVars, parseVars, framedVars, parentVars, audit>>

\* collate_scts, last step: the temporary file is renamed into place, and
\* the mutex released if it was taken.
CollateRename ==
    /\ daemon.pc = "rename"
    /\ \E fault \in Faults({"rename"}) :
          LET dir  == sct_dirs[CurDir]
              rv   == IF fault = "rename" THEN APR_EGENERAL ELSE APR_SUCCESS
              dir1 == IF fault = "rename" THEN dir
                      ELSE apr_file_rename(dir, COLLATED_TMP, COLLATED_SCTS_BASENAME)
              dirs == [sct_dirs EXCEPT ![CurDir] = dir1]
              rec  == [Deref(daemon.cur) EXCEPT !.published = (rv = APR_SUCCESS),
                                                !.faulted = (@ \/ rv # APR_SUCCESS)]
              h    == IF rv = APR_SUCCESS THEN hist
                      ELSE [hist EXCEPT !.rename_failed[CurDir] = TRUE]
          IN  /\ sct_dirs' = dirs
              /\ faults_left' = FaultsAfter(fault)
              /\ daemon' = RefreshReturned(daemon, rv, dirs, now)
              /\ hist' = HistReturned(h, daemon, rec, rv, dir1)
    /\ ssl_ct_sct_update' = IF daemon.replacing THEN NULL ELSE ssl_ct_sct_update
    /\ UNCHANGED <<ctconf, reader>>
    /\ UNCHANGED <<connVars, parseVars, framedVars, parentVars, audit>>

\* The server is restarted with another CTLogs setting; its first pass is
\* again the one of ssl_ct_post_config.
LogConfigs == {<<"A", "B">>, <<"B", "C">>, <<>>}

Restart ==
    /\ daemon.pc \in {"loop", "down"}
    /\ daemon.passes >= 1
    /\ ~daemon.restarted
    /\ \E urls \in LogConfigs \ {ctconf.log_urls} :
          ctconf' = [ctconf EXCEPT !.log_urls = urls]
    /\ daemon' = [daemon EXCEPT !.pc = "idle", !.startup = TRUE, !.restarted = TRUE]
    /\ UNCHANGED <<sct_dirs, ssl_ct_sct_update, reader, hist, faults_left>>
    /\ UNCHANGED <<connVars, parseVars, framedVars, parentVars, audit>>

\* Whether a collated file has ever been in place in directory d.
EverPublished(d) ==
    \/ ctutil_file_exists(hist.init[d], COLLATED_SCTS_BASENAME)
    \/ \E i \in 1..Len(hist.dir[d]) : hist.dir[d][i].published

\* The certificate the child serves.
ReadDirs == {"d1"}

MaxReads == 1

IdleReader == [pc |-> "idle", d |-> "d1", got |-> NULL, rv |-> APR_SUCCESS,
               ever |-> FALSE, rename_failed |-> FALSE, reads |-> 0]

\* A read that fetches and collates on demand when nothing is published.
ReadSctsOnDemand(dirs, d, t) ==
    IF ctutil_file_exists(dirs[d], COLLATED_SCTS_BASENAME)
    THEN [rv |-> APR_SUCCESS, scts |-> Ptr(dirs[d][COLLATED_SCTS_BASENAME].data),
          dirs |-> dirs]
    ELSE [rv |-> APR_SUCCESS, scts |-> Ptr(CollatedBlob(<<LogSct("A", 1)>>)),
          dirs |-> [dirs EXCEPT ![d] =
                      FileWrite(@, COLLATED_SCTS_BASENAME,
                                CollatedBlob(<<LogSct("A", 1)>>), t)]]

\* What read_scts does under the mutex (line 1252): ctutil_read_file of the
\* collated file, which gives its bytes or fails, and touches no file.
ReadScts(dirs, d, t) ==
    IF ctutil_file_exists(dirs[d], COLLATED_SCTS_BASENAME)
    THEN [rv |-> APR_SUCCESS, scts |-> Ptr(dirs[d][COLLATED_SCTS_BASENAME].data),
          dirs |-> dirs]
    ELSE [rv |-> APR_ENOENT, scts |-> NULL, dirs |-> dirs]

\* read_scts, called by server_extension_callback_2 in a child serving a
\* handshake for the certificate of d: the mutex is taken and the collated
\* file read.
read_scts(d) ==
    /\ reader.pc = "idle"
    /\ reader.reads < MaxReads
    /\ MutexFree(ssl_ct_sct_update)
    /\ ssl_ct_sct_update' = Ptr("child")
    /\ LET r == ReadScts(sct_dirs, d, now)
       IN  /\ reader' = [pc |-> "locked", d |-> d, got |-> r.scts, rv |-> r.rv,
                         ever |-> EverPublished(d),
                         rename_failed |-> hist.rename_failed[d],
                         reads |-> reader.reads + 1]
           /\ sct_dirs' = r.dirs
    /\ UNCHANGED <<ctconf, daemon, hist, faults_left>>
    /\ UNCHANGED <<connVars, parseVars, framedVars, parentVars, audit>>

\* read_scts, the mutex released.
ReadUnlock ==
    /\ reader.pc = "locked"
    /\ ssl_ct_sct_update' = NULL
    /\ reader' = [IdleReader EXCEPT !.reads = reader.reads]
    /\ UNCHANGED <<sct_dirs, ctconf, daemon, hist, faults_left>>
    /\ UNCHANGED <<connVars, parseVars, framedVars, parentVars, audit>>

-----------------------------------------------------------------------------
(* The directories and settings the store starts from *)

EmptyDir == <<>>
File(data, t) == [data |-> data, mtime |-> t]

\* An SCT the administrator has put in the directory.
AdminOnly == (AdminSct :> File(sOK, 500))
AdminFuture == (AdminSct :> File(sFUT, 500))
AdminGarbage == (AdminSct :> File(sGARB, 500))

\* SCTs left from an earlier run whose list file has been lost.
StaleAuto ==
    (url_to_fn("A") :> File(LogSct("A", 0), 100))
    @@ (url_to_fn("C") :> File(LogSct("C", 0), 100)) @@ AdminOnly

\* A directory as a successful refresh for the logs A and B leaves it.
Steady ==
    (LOGLIST_BASENAME :> File(<<"A", "B">>, 1200))
    @@ (url_to_fn("A") :> File(LogSct("A", 1), 1200))
    @@ (url_to_fn("B") :> File(LogSct("B", 1), 1200))
    @@ (COLLATED_TMP :> File(<<0, 0>>, 1200))
    @@ (COLLATED_SCTS_BASENAME :>
           File(CollatedBlob(<<LogSct("A", 1), LogSct("B", 1)>>), 1200))

\* A list file with a line that is no URL.
GarbageList ==
    (LOGLIST_BASENAME :> File(<<"C", GarbageURL>>, 1200))
    @@ (url_to_fn("C") :> File(LogSct("C", 1), 1200))

InitialDirs == {EmptyDir, AdminOnly, AdminFuture, AdminGarbage, StaleAuto,
                Steady, GarbageList}

InitStoreIdle ==
    /\ sct_dirs = [d \in Dirs |-> EmptyDir]
    /\ ctconf = [log_urls |-> <<>>, max_sct_age |-> 5000, cert_sct_dirs |-> <<>>,
                 dir_order |-> SctNames]
    /\ daemon = IdleDaemon
    /\ ssl_ct_sct_update = NULL
    /\ reader = IdleReader
    /\ hist = [init |-> [d \in Dirs |-> EmptyDir], dir |-> [d \in Dirs |-> <<>>],
               pass |-> <<>>, complete |-> [d \in Dirs |-> {}],
               rename_failed |-> [d \in Dirs |-> FALSE]]

InitStore ==
    /\ \/ /\ sct_dirs \in {ds \in [Dirs -> InitialDirs] : ds["d2"] = EmptyDir}
          /\ ctconf \in [log_urls : {<<"A", "B">>}, max_sct_age : {500},
                         cert_sct_dirs : {<<"d1">>}, dir_order : DirOrders]
       \/ /\ sct_dirs \in {ds \in [Dirs -> {AdminOnly, AdminGarbage}] :
                               ds["d2"] = AdminOnly}
          /\ ctconf \in [log_urls : {<<"A">>, <<>>}, max_sct_age : {500},
                         cert_sct_dirs : {<<>>, <<"d1", "d2">>},
                         dir_order : {SctNames}]
    /\ daemon = IdleDaemon
    /\ ssl_ct_sct_update = NULL
    /\ reader = IdleReader
    /\ hist = [init |-> sct_dirs, dir |-> [d \in Dirs |-> <<>>],
               pass |-> <<>>,
               complete |-> [d \in Dirs |->
                               IF ctutil_file_exists(sct_dirs[d], COLLATED_SCTS_BASENAME)
                               THEN {sct_dirs[d][COLLATED_SCTS_BASENAME].data}
                               ELSE {}],
               rename_failed |-> [d \in Dirs |-> FALSE]]

NextRefresh ==
    \/ refresh_all_scts
    \/ sct_daemon
    \/ UpdateLogList
    \/ FetchSct
    \/ CollateOpen
    \/ CollateWrite
    \/ CollateLockRemove
    \/ CollateRename
    \/ Restart
    \/ \E d \in ReadDirs : read_scts(d)
    \/ ReadUnlock
    \/ Tick

-----------------------------------------------------------------------------
(* The parent process and its daemon: daemon_start and daemon_maint *)

DAEMON_STARTUP_ERROR == 254

MaxStarts == 2

\* What apr_wait_t status the maintenance function can be given: exit(0),
\* a signal, the startup error of sct_daemon, and the exit(-1) of a daemon
\* that left its loop.
ExitStatuses == {0, 11, DAEMON_STARTUP_ERROR, 255}

AP_MPMQ_STARTING == "AP_MPMQ_STARTING"
AP_MPMQ_RUNNING  == "AP_MPMQ_RUNNING"
AP_MPMQ_STOPPING == "AP_MPMQ_STOPPING"
APR_ENOTIMPL     == "APR_ENOTIMPL"
DECLINED         == "DECLINED"

APR_OC_REASON_DEATH      == "APR_OC_REASON_DEATH"
APR_OC_REASON_UNREGISTER == "APR_OC_REASON_UNREGISTER"
APR_OC_REASON_LOST       == "APR_OC_REASON_LOST"
APR_OC_REASON_RESTART    == "APR_OC_REASON_RESTART"

\* The parent's view of the daemon: whether daemon_maint is registered for
\* it, the process (none, running, dead with its status, lost), what
\* ap_mpm_query answers, the daemons started and the calls of daemon_maint
\* so far, whether SIGHUP was sent to the process, and the last call of
\* daemon_maint.
NoOtherChild ==
    [registered |-> FALSE, proc |-> "none", status |-> NULL,
     mpm_rv |-> APR_SUCCESS, mpm_state |-> AP_MPMQ_STARTING,
     starts |-> 0, calls |-> 0, sighup |-> FALSE, last |-> NULL]

\* daemon_start (lines 1071-1093): fork, and the new process registered with
\* daemon_maint; a fork that fails leaves no daemon.
daemon_start(o, fault) ==
    IF fault = "fork"
    THEN [o EXCEPT !.last = Ptr([Deref(@) EXCEPT !.started = TRUE, !.ret = DECLINED])]
    ELSE [o EXCEPT !.proc = "running", !.status = NULL, !.registered = TRUE,
                   !.starts = @ + 1, !.sighup = FALSE,
                   !.last = Ptr([Deref(@) EXCEPT !.started = TRUE, !.ret = OK])]

\* The case APR_OC_REASON_UNREGISTER (lines 1021-1026): SIGHUP is sent to
\* the pid of the record.
SignalDaemon(o) == [o EXCEPT !.sighup = (o.proc = "running")]

\* apr_proc_other_child_unregister(data): the record is taken off the list,
\* and APR tells the maintenance function so.
apr_proc_other_child_unregister(o) == [SignalDaemon(o) EXCEPT !.registered = FALSE]

\* Lines 990-997: stopping unless the MPM can be asked and is not stopping.
Stopping(mpm_rv, mpm_state) == ~(mpm_rv = APR_SUCCESS /\ mpm_state # AP_MPMQ_STOPPING)

\* Lines 998-1009: a daemon that died is restarted when the server is not
\* stopping and the daemon did not fail to initialize.
\* (RestartsWhateverStatus: a restart that does not look at the status.)
RestartsWhateverStatus(stopping, status) == ~stopping
RestartsAfterDeath(stopping, status) == ~stopping /\ status # DAEMON_STARTUP_ERROR

\* daemon_maint(reason, data, status), lines 981-1028.
DaemonMaint(o, reason, status, fault) ==
    LET stopping == Stopping(o.mpm_rv, o.mpm_state)
        call == [reason |-> reason, status |-> status, mpm_rv |-> o.mpm_rv,
                 mpm_state |-> o.mpm_state, started |-> FALSE, ret |-> NULL]
        o0   == [o EXCEPT !.calls = @ + 1, !.last = Ptr(call)]
    IN  IF reason = APR_OC_REASON_DEATH
        THEN IF RestartsAfterDeath(stopping, status)
             THEN daemon_start(apr_proc_other_child_unregister(o0), fault)
             ELSE apr_proc_other_child_unregister(o0)
        ELSE IF reason = APR_OC_REASON_RESTART
        THEN apr_proc_other_child_unregister(o0)
        ELSE IF reason = APR_OC_REASON_LOST
        THEN daemon_start(apr_proc_other_child_unregister(o0), fault)
        ELSE SignalDaemon(o0)

\* The reasons APR can call the maintenance function with, as the process
\* is: its death with the status it left, its loss, a restart of the server,
\* the cleanup of the pool the record lives in.
ReasonsNow(o) ==
    (IF o.proc = "dead" THEN {APR_OC_REASON_DEATH} ELSE {})
    \cup (IF o.proc = "lost" THEN {APR_OC_REASON_LOST} ELSE {})
    \cup {APR_OC_REASON_RESTART, APR_OC_REASON_UNREGISTER}

daemon_maint ==
    /\ oc.registered
    /\ \E reason \in ReasonsNow(oc) :
       \E fault \in Faults({"fork"}) :
          LET status == IF reason = APR_OC_REASON_DEATH THEN oc.status ELSE -1
              o      == DaemonMaint(oc, reason, status, fault)
              used   == IF Deref(o.last).ret = DECLINED THEN "fork" ELSE "none"
          IN  /\ oc' = IF reason = APR_OC_REASON_UNREGISTER
                       THEN [o EXCEPT !.registered = FALSE]
                       ELSE o
              /\ faults_left' = FaultsAfter(used)
    /\ UNCHANGED <<connVars, parseVars, framedVars, storeVars, audit, servers>>

\* The daemon process ends: sct_daemon returned, or a signal ended it.
DaemonExits ==
    /\ oc.proc = "running"
    /\ oc.starts < MaxStarts
    /\ \E status \in ExitStatuses :
          oc' = [oc EXCEPT !.proc = "dead", !.status = status]
    /\ UNCHANGED <<connVars, parseVars, framedVars, storeVars, faults_left, audit,
                   servers>>

\* The daemon process is gone and its status with it.
DaemonLost ==
    /\ oc.proc = "running"
    /\ oc.starts < MaxStarts
    /\ oc' = [oc EXCEPT !.proc = "lost"]
    /\ UNCHANGED <<connVars, parseVars, framedVars, storeVars, faults_left, audit,
                   servers>>

\* The server begins to stop or to restart.
MpmStops ==
    /\ oc.mpm_state = AP_MPMQ_RUNNING
    /\ oc' = [oc EXCEPT !.mpm_state = AP_MPMQ_STOPPING]
    /\ UNCHANGED <<connVars, parseVars, framedVars, storeVars, faults_left, audit,
                   servers>>

-----------------------------------------------------------------------------
(* The configuration: directives, merge_ct_server_config, the certificates *)

NVhosts == 1

PROXY_AWARENESS_UNSET == "PROXY_AWARENESS_UNSET"

\* A parsed URL and apr_uri_unparse of it.
UriOf(lu) == [scheme |-> "http", hostname |-> lu, path |-> "/"]
apr_uri_unparse(uri) == <<uri.scheme, "://", uri.hostname, uri.path>>

\* create_ct_server_config (lines 2349-2358): apr_pcalloc and two defaults.
create_ct_server_config ==
    [log_urls |-> NULL, log_url_strs |-> NULL, cert_sct_dirs |-> NULL,
     ct_tools_dir |-> NULL, ct_exe |-> NULL, max_sct_age |-> 3600,
     proxy_awareness |-> PROXY_AWARENESS_UNSET]

\* save_log_url (lines 2446-2487) for a URL that parses: the URL and its
\* string are pushed onto the two arrays.
save_log_url(sc, lu) ==
    LET s0 == IF sc.log_urls = NULL
              THEN [sc EXCEPT !.log_urls = Ptr(<<>>), !.log_url_strs = Ptr(<<>>)]
              ELSE sc
    IN  [s0 EXCEPT !.log_urls = Ptr(Append(Deref(@), UriOf(lu))),
                   !.log_url_strs = Ptr(Append(Deref(@), apr_uri_unparse(UriOf(lu))))]

RECURSIVE SaveLogUrls(_, _, _)
SaveLogUrls(sc, argv, i) ==
    IF i > Len(argv) THEN sc ELSE SaveLogUrls(save_log_url(sc, argv[i]), argv, i + 1)

\* merge_ct_server_config (lines 2360-2384).
merge_ct_server_config(base, virt) ==
    [virt EXCEPT !.log_urls = IF virt.log_urls # NULL THEN virt.log_urls
                              ELSE base.log_urls,
                 !.ct_tools_dir = base.ct_tools_dir,
                 !.max_sct_age = base.max_sct_age,
                 !.proxy_awareness =
                     IF virt.proxy_awareness # PROXY_AWARENESS_UNSET
                     THEN virt.proxy_awareness ELSE base.proxy_awareness]

\* The servers: the main server first, then the virtual hosts.
Servers == 1..(1 + NVhosts)

\* The module configurations while the configuration is read, no
\* refresh_all_scts yet.
NoServers ==
    [phase |-> "config", conf |-> [s \in Servers |-> create_ct_server_config],
     used |-> <<>>]

\* refresh_all_scts (lines 1113-1137): what refresh_scts_for_cert is called
\* with, server after server, a directory once.
RECURSIVE RefreshCalls(_, _, _, _)
RefreshCalls(conf, s, i, calls) ==
    IF s > 1 + NVhosts THEN calls
    ELSE IF conf[s].cert_sct_dirs = NULL \/ i > Len(Deref(conf[s].cert_sct_dirs))
    THEN RefreshCalls(conf, s + 1, 1, calls)
    ELSE LET d == Deref(conf[s].cert_sct_dirs)[i]
         IN  IF \E k \in 1..Len(calls) : calls[k].cert_sct_dir = d
             THEN RefreshCalls(conf, s, i + 1, calls)
             ELSE RefreshCalls(conf, s, i + 1,
                     Append(calls, [cert_sct_dir |-> d, server |-> s,
                                    log_urls |-> conf[s].log_urls,
                                    log_url_strs |-> conf[s].log_url_strs,
                                    ct_exe |-> conf[s].ct_exe,
                                    max_sct_age |-> conf[s].max_sct_age]))

\* CTLogs, in the global context only (lines 2559-2584).
ct_logs ==
    /\ servers.phase = "config"
    /\ servers.conf[1].log_urls = NULL
    /\ \E argv \in {<<"A">>, <<"A", "B">>} :
          servers' = [servers EXCEPT !.conf[1] = SaveLogUrls(@, argv, 1)]
    /\ UNCHANGED <<connVars, parseVars, framedVars, storeVars, faults_left, audit, oc>>

\* CTToolsDir, in the global context only (lines 2655-2687).
ct_tools_dir ==
    /\ servers.phase = "config"
    /\ servers.conf[1].ct_tools_dir = NULL
    /\ servers' = [servers EXCEPT !.conf[1].ct_exe = Ptr(<<"/ct", "src/client/ct">>),
                                  !.conf[1].ct_tools_dir = Ptr("/ct")]
    /\ UNCHANGED <<connVars, parseVars, framedVars, storeVars, faults_left, audit, oc>>

\* CTProxyAwareness, in the main server or a virtual host (lines 2715-2735).
ct_proxy_awareness(s) ==
    /\ servers.phase = "config"
    /\ servers.conf[s].proxy_awareness = PROXY_AWARENESS_UNSET
    /\ \E mode \in {PROXY_OBLIVIOUS, PROXY_AWARE, PROXY_REQUIRE} :
          servers' = [servers EXCEPT !.conf[s].proxy_awareness = mode]
    /\ UNCHANGED <<connVars, parseVars, framedVars, storeVars, faults_left, audit, oc>>

\* httpd merges the configuration of each virtual host with that of the main
\* server once the configuration is read.
MergeConfigs ==
    /\ servers.phase = "config"
    /\ servers' = [servers EXCEPT
          !.phase = "merged",
          !.conf = [s \in Servers |->
                       IF s = 1 THEN servers.conf[1]
                       ELSE merge_ct_server_config(servers.conf[1], servers.conf[s])]]
    /\ UNCHANGED <<connVars, parseVars, framedVars, storeVars, faults_left, audit, oc>>

\* ssl_ct_ssl_server_init (lines 1338-1346) for a server with certificates:
\* look_for_server_certs records the directory of each.
ssl_ct_ssl_server_init(s) ==
    /\ servers.phase = "merged"
    /\ servers.conf[s].cert_sct_dirs = NULL
    /\ \E dirs \in {<<"d1">>, <<"d2">>, <<"d1", "d2">>} :
          servers' = [servers EXCEPT !.conf[s].cert_sct_dirs = Ptr(dirs)]
    /\ UNCHANGED <<connVars, parseVars, framedVars, storeVars, faults_left, audit, oc>>

\* ssl_ct_post_config calls refresh_all_scts.
ConfigRefresh ==
    /\ servers.phase = "merged"
    /\ servers' = [servers EXCEPT !.phase = "post_config",
                                  !.used = RefreshCalls(servers.conf, 1, 1, <<>>)]
    /\ UNCHANGED <<connVars, parseVars, framedVars, storeVars, faults_left, audit, oc>>

-----------------------------------------------------------------------------
(* Specifications *)

InitConn(configs, offer) ==
    /\ now = 1500
    /\ sconf \in configs
    /\ peer = offer
    /\ conn = [c \in Conns |-> IdleConn]
    /\ cached_server_data = {}
    /\ proc_alive = TRUE

NoPeer == [conns |-> {}, chains |-> {}, serverhello |-> {}, ocsp |-> {}]

InitConnIdle == InitConn(ServerConfigs({PROXY_AWARE}, {LogKeysA}), NoPeer)

InitParseIdle == p_sct = <<>> /\ p_cc = NULL /\ p_res = NULL

InitFramedIdle == f_xs = <<>> /\ f_res = NULL

\* No daemon has been started, no directive read.
InitMaintIdle == oc = NoOtherChild /\ servers = NoServers

InitAuditIdle == audit = ChildAudit(NULL)

\* ssl_ct_child_init has opened the audit file unless the proxy is oblivious.
InitAudit ==
    audit = ChildAudit(IF sconf.proxy_awareness = PROXY_OBLIVIOUS
                       THEN NULL ELSE Ptr("audit_file"))

NextConn ==
    \/ \E c \in Conns : ssl_ct_ssl_proxy_verify(c)
    \/ \E c \in Conns : client_extension_callback_2(c)
    \/ \E c \in Conns : ocsp_resp_cb(c)
    \/ \E c \in Conns : ssl_ct_ssl_proxy_post_handshake(c)
    \/ \E c \in Conns : PostHandshakeValidate(c)
    \/ \E c \in Conns : PostHandshakeInsert(c)
    \/ \E c \in Conns : SaveServerDataLock(c)
    \/ \E c \in Conns : SaveServerDataWrite(c)
    \/ \E c \in Conns : connection_closed(c)
    \/ Tick

\* Concurrent connections of one child process.
Init ==
    /\ InitConn(ServerConfigs({PROXY_AWARE, PROXY_REQUIRE}, {LogKeysA}), PeerRace)
    /\ InitParseIdle
    /\ InitFramedIdle
    /\ InitMaintIdle
    /\ InitStoreIdle
    /\ faults_left = 0
    /\ InitAudit

Next == NextConn

Spec == Init /\ [][Next]_vars

\* One connection, every kind of input and every configuration.
InitValidate ==
    /\ InitConn(ServerConfigs({PROXY_OBLIVIOUS, PROXY_AWARE, PROXY_REQUIRE},
                              {NoLogKeys, LogKeysA, LogKeysUA}), PeerValidate)
    /\ InitParseIdle
    /\ InitFramedIdle
    /\ InitMaintIdle
    /\ InitStoreIdle
    /\ faults_left = 0
    /\ InitAudit

SpecValidate == InitValidate /\ [][NextConn]_vars

\* parse_sct on its own.
InitParse ==
    /\ InitConnIdle
    /\ p_sct \in ParseInputs
    /\ p_cc \in ParseChains
    /\ p_res = NULL
    /\ InitFramedIdle
    /\ InitMaintIdle
    /\ InitStoreIdle
    /\ faults_left = 0
    /\ InitAuditIdle

SpecParse == InitParse /\ [][ParseSct]_vars

\* The framed list written by collate_scts and read back by deserialize_SCTs.
InitFramed ==
    /\ InitConnIdle
    /\ InitParseIdle
    /\ f_xs \in FramedInputs
    /\ f_res = NULL
    /\ InitMaintIdle
    /\ InitStoreIdle
    /\ faults_left = 0
    /\ InitAuditIdle

SpecFramed == InitFramed /\ [][CollateAndDeserialize]_vars

\* A backend with a good SCT in the handshake and a bad one in the OCSP
\* response.
PeerAudit ==
    [conns |-> Conns,
     chains |-> {<<CertX>>},
     serverhello |-> {CollatedBlob(<<sOK>>)},
     ocsp |-> {CollatedBlob(<<sBAD>>)}]

\* Concurrent connections of a child whose audit file may fail.
InitAuditing ==
    /\ InitConn(ServerConfigs({PROXY_REQUIRE}, {LogKeysA}), PeerAudit)
    /\ InitParseIdle
    /\ InitFramedIdle
    /\ InitMaintIdle
    /\ InitStoreIdle
    /\ faults_left \in 0..MaxFaults
    /\ InitAudit

NextAudit ==
    \/ NextConn
    \/ inactivate_audit_file

SpecAudit == InitAuditing /\ [][NextAudit]_vars

\* The refresh passes over the SCT store, with a child reading it.
InitRefresh ==
    /\ InitConnIdle
    /\ InitParseIdle
    /\ InitFramedIdle
    /\ InitMaintIdle
    /\ InitStore
    /\ faults_left \in 0..MaxFaults
    /\ InitAuditIdle

SpecRefresh == InitRefresh /\ [][NextRefresh]_vars

\* The daemon after a startup whose refresh succeeded, with two certificate
\* directories to maintain; it may be told to leave by SIGHUP.
RunningDaemon ==
    [IdleDaemon EXCEPT !.pc = "loop", !.startup = FALSE]

InitDaemon ==
    /\ InitConnIdle
    /\ InitParseIdle
    /\ InitFramedIdle
    /\ InitMaintIdle
    /\ sct_dirs = [d \in Dirs |-> Steady]
    /\ ctconf = [log_urls |-> <<"A", "B">>, max_sct_age |-> 500,
                 cert_sct_dirs |-> <<"d1", "d2">>, dir_order |-> SctNames]
    /\ daemon = RunningDaemon
    /\ ssl_ct_sct_update = NULL
    /\ reader = IdleReader
    /\ hist = [init |-> sct_dirs, dir |-> [d \in Dirs |-> <<>>],
               pass |-> <<>>,
               complete |-> [d \in Dirs |-> {sct_dirs[d][COLLATED_SCTS_BASENAME].data}],
               rename_failed |-> [d \in Dirs |-> FALSE]]
    /\ faults_left \in 0..(MaxFaults + 1)
    /\ InitAuditIdle

\* The steps of the daemon process itself.
DaemonProcess ==
    \/ sct_daemon
    \/ refresh_all_scts
    \/ UpdateLogList
    \/ FetchSct
    \/ CollateOpen
    \/ CollateWrite
    \/ CollateLockRemove
    \/ CollateRename

NextDaemon ==
    \/ DaemonProcess
    \/ daemon_signal_handler
    \/ Tick

SpecDaemon == InitDaemon /\ [][NextDaemon]_vars

\* The daemon process is scheduled: apr_sleep returns, and each step of a
\* pass, the external submission included, comes to an end.
LiveDaemon == SpecDaemon /\ WF_vars(DaemonProcess)

\* The parent process with the daemon ssl_ct_post_config started, under an
\* MPM that answers ap_mpm_query or does not.
InitMaint ==
    /\ InitConnIdle
    /\ InitParseIdle
    /\ InitFramedIdle
    /\ InitStoreIdle
    /\ faults_left \in 0..MaxFaults
    /\ InitAuditIdle
    /\ servers = NoServers
    /\ \E mpm_rv \in {APR_SUCCESS, APR_ENOTIMPL} :
       \E mpm_state \in {AP_MPMQ_STARTING, AP_MPMQ_RUNNING} :
          oc = [NoOtherChild EXCEPT !.registered = TRUE, !.proc = "running",
                                    !.mpm_rv = mpm_rv, !.mpm_state = mpm_state]

NextMaint ==
    \/ daemon_maint
    \/ DaemonExits
    \/ DaemonLost
    \/ MpmStops

SpecMaint == InitMaint /\ [][NextMaint]_vars

\* The configuration is read, merged, and used by the first refresh.
InitConfig ==
    /\ InitConnIdle
    /\ InitParseIdle
    /\ InitFramedIdle
    /\ InitMaintIdle
    /\ InitStoreIdle
    /\ faults_left = 0
    /\ InitAuditIdle

NextConfig ==
    \/ ct_logs
    \/ ct_tools_dir
    \/ \E s \in Servers : ct_proxy_awareness(s)
    \/ MergeConfigs
    \/ \E s \in Servers : ssl_ct_ssl_server_init(s)
    \/ ConfigRefresh

SpecConfig == InitConfig /\ [][NextConfig]_vars

\* A child that serves a backend connection as a proxy and reads the
\* collated SCTs for a client, while the store is refreshed.
PeerServe ==
    [conns |-> {1},
     chains |-> {<<CertX>>},
     serverhello |-> {CollatedBlob(<<sOK>>)},
     ocsp |-> {CollatedBlob(<<sOK>>)}]

InitServe ==
    /\ InitConn(ServerConfigs({PROXY_AWARE}, {LogKeysA}), PeerServe)
    /\ InitParseIdle
    /\ InitFramedIdle
    /\ InitMaintIdle
    /\ sct_dirs \in {ds \in [Dirs -> {EmptyDir, Steady}] : ds["d2"] = EmptyDir}
    /\ ctconf = [log_urls |-> <<"A">>, max_sct_age |-> 500,
                 cert_sct_dirs |-> <<"d1">>, dir_order |-> SctNames]
    /\ daemon = IdleDaemon
    /\ ssl_ct_sct_update = NULL
    /\ reader = IdleReader
    /\ hist = [init |-> sct_dirs, dir |-> [d \in Dirs |-> <<>>],
               pass |-> <<>>,
               complete |-> [d \in Dirs |->
                               IF ctutil_file_exists(sct_dirs[d], COLLATED_SCTS_BASENAME)
                               THEN {sct_dirs[d][COLLATED_SCTS_BASENAME].data}
                               ELSE {}],
               rename_failed |-> [d \in Dirs |-> FALSE]]
    /\ faults_left = 0
    /\ InitAudit

NextServe ==
    \/ \E c \in Conns : ssl_ct_ssl_proxy_verify(c)
    \/ \E c \in Conns : client_extension_callback_2(c)
    \/ \E c \in Conns : ocsp_resp_cb(c)
    \/ \E c \in Conns : ssl_ct_ssl_proxy_post_handshake(c)
    \/ \E c \in Conns : PostHandshakeValidate(c)
    \/ \E c \in Conns : PostHandshakeInsert(c)
    \/ \E c \in Conns : SaveServerDataLock(c)
    \/ \E c \in Conns : SaveServerDataWrite(c)
    \/ \E d \in ReadDirs : read_scts(d)
    \/ ReadUnlock
    \/ refresh_all_scts
    \/ sct_daemon
    \/ UpdateLogList
    \/ FetchSct
    \/ CollateOpen
    \/ CollateWrite
    \/ CollateLockRemove
    \/ CollateRename

SpecServe == InitServe /\ [][NextServe]_vars

-----------------------------------------------------------------------------
(* Properties of validate_server_data and the proxy hooks (SpecValidate, Spec) *)

\* The tally of a connection whose validation ran its loop to the end.
Tallied(c) == conn[c].tally # NULL /\ Deref(conn[c].tally).looped
              /\ ~Deref(conn[c].tally).fault

\* The verdict a connection reports: the cached one on a hit, else its own.
\* The verdicts the cache holds under a key.
CachedVerdicts(key) ==
    {e.validation_result : e \in {x \in cached_server_data : x.key = key}}

Verdict(c) ==
    IF conn[c].hit
    THEN conn[c].rv
    ELSE Deref(conn[c].tally).rv

NoChannelData(c) ==
    /\ conn[c].cert_sct_list = NULL
    /\ conn[c].serverhello_sct_list = NULL
    /\ conn[c].ocsp_sct_list = NULL

\* C1: whenever validate_server_data counted at least one verification
\* success, its verdict is success, whatever the other SCTs of the connection
\* are.
C1_OneSuccessSuffices ==
    \A c \in Conns :
        Tallied(c) /\ Deref(conn[c].tally).verification_successes >= 1
            => Deref(conn[c].tally).rv = APR_SUCCESS

\* C2: with no verification success, the verdict of validate_server_data is
\* failure exactly when a verification failure was tallied; SCTs that all come
\* from unknown logs give success and the connection is not refused.
C2_FailureIffFailureTallied ==
    \A c \in Conns :
        Tallied(c) /\ Deref(conn[c].tally).verification_successes = 0
            => /\ (Deref(conn[c].tally).rv # APR_SUCCESS)
                    <=> (Deref(conn[c].tally).verification_failures >= 1)
               /\ (Deref(conn[c].tally).unknown_log_ids
                        = Len(Deref(conn[c].tally).all_scts)
                   /\ Deref(conn[c].tally).verification_failures = 0
                   /\ conn[c].pc = "done")
                    => conn[c].ret = OK

C4_AwareNeverBlocks ==
    sconf.proxy_awareness = PROXY_AWARE
        => \A c \in Conns :
              /\ conn[c].verify_ret \in {"none", OK}
              /\ conn[c].pc = "done" => conn[c].ret = OK

\* Connection c1 had returned before c2 entered post-handshake, c1 created the
\* cache entry, and c2 presented the same leaf certificate and the same bytes
\* on every channel.
SameDataAfter(c1, c2) ==
    /\ c1 # c2
    /\ conn[c2].pc = "done"
    /\ c1 \in conn[c2].began_after
    /\ conn[c1].tally # NULL /\ ~conn[c1].lost
    /\ conn[c1].leaf_seen # NULL
    /\ conn[c2].leaf_seen = conn[c1].leaf_seen
    /\ conn[c2].cert_sct_list = conn[c1].cert_sct_list
    /\ conn[c2].serverhello_sct_list = conn[c1].serverhello_sct_list
    /\ conn[c2].ocsp_sct_list = conn[c1].ocsp_sct_list

\* C5: of two connections handled one after the other with the same leaf
\* certificate and the same SCT data on every channel, the second finds the
\* entry the first created, parses and verifies nothing, and reports the
\* verdict of the first.
C5_SecondConnectionHitsCache ==
    \A c1, c2 \in Conns :
        SameDataAfter(c1, c2)
            => /\ conn[c2].hit
               /\ conn[c2].tally = NULL
               /\ conn[c2].rv = conn[c1].rv
               /\ conn[c2].validation_error = conn[c1].validation_error
               /\ conn[c2].ret = conn[c1].ret

\* The second connection came after the clock had moved, and reports the
\* failure the first computed.
C5_Witness ==
    \E c1, c2 \in Conns :
        /\ SameDataAfter(c1, c2)
        /\ conn[c2].hit
        /\ Deref(conn[c1].tally).nparse >= 1
        /\ conn[c2].rv = APR_EINVAL
        /\ now = 2500

\* C6: a connection that finds, at the second lookup, the entry another
\* connection inserted meanwhile reports that entry's verdict, not its own.
C6_LoserUsesCachedResult ==
    \A c \in Conns :
        conn[c].pc = "done" /\ conn[c].lost
            => \E e \in cached_server_data :
                   /\ e.key = Deref(conn[c].key)
                   /\ conn[c].rv = e.validation_result
                   /\ conn[c].validation_error = (e.validation_result # APR_SUCCESS)

-----------------------------------------------------------------------------
(* Properties of parse_sct (SpecParse) *)

\* The SCT grammar: header, extensions and signature with their 16-bit
\* lengths, and nothing else.
WellFormedSCT(b) ==
    /\ Len(b) >= SCT_HEADER_SIZE + 2
    /\ LET e == 256 * b[SCT_HEADER_SIZE + 1] + b[SCT_HEADER_SIZE + 2]
       IN  /\ Len(b) >= SCT_HEADER_SIZE + 2 + e + 4
           /\ LET g == 256 * b[SCT_HEADER_SIZE + e + 5] + b[SCT_HEADER_SIZE + e + 6]
              IN  Len(b) = SCT_HEADER_SIZE + 2 + e + 4 + g

\* C7: parse_sct returns an error for every malformed SCT (short header,
\* extension or signature length beyond the bytes that remain, bytes after the
\* signature) and never reads, or records a field that reaches, beyond the end
\* of the input.
C7_MalformedRejected ==
    p_res # NULL
        => /\ Deref(p_res).rv # SIGSEGV
           /\ ~Deref(p_res).read_beyond
           /\ ~Deref(p_res).points_beyond
           /\ ~WellFormedSCT(p_sct) => Deref(p_res).rv # APR_SUCCESS

\* C8: parse_sct succeeds on every well-formed SCT, with or without
\* extensions, and returns exactly the encoded field values.
C8_WellFormedParsed ==
    p_res # NULL /\ p_sct \in WellFormedInputs
        => /\ Deref(p_res).rv = APR_SUCCESS
           /\ \E f \in FieldSpace :
                 LET g == Deref(p_res).fields
                 IN  /\ p_sct = EncodeSCT(f)
                     /\ g.version = f.version
                     /\ g.logid = f.logid
                     /\ g.timestamp = f.timestamp
                     /\ g.extlen = Len(f.extensions)
                     /\ (IF g.extensions = NULL THEN <<>> ELSE Deref(g.extensions))
                            = f.extensions
                     /\ g.hash_alg = f.hash_alg
                     /\ g.sig_alg = f.sig_alg
                     /\ g.siglen = Len(f.signature)
                     /\ g.sig = Ptr(f.signature)

\* The extension bytes of an SCT whose extension length is within its bytes.
ExtensionsOf(b) ==
    SubSeq(b, SCT_HEADER_SIZE + 3,
           SCT_HEADER_SIZE + 2 + 256 * b[SCT_HEADER_SIZE + 1] + b[SCT_HEADER_SIZE + 2])

\* The signed input the format prescribes for an SCT's bytes and a leaf DER.
PrescribedSignedInput(b, der, ext) ==
    <<0, 0>> \o SubSeq(b, 2 + LOG_ID_SIZE, SCT_HEADER_SIZE) \o <<0, 0>>
    \o <<(Len(der) \div 65536) % 256, (Len(der) \div 256) % 256, Len(der) % 256>> \o der
    \o <<(Len(ext) \div 256) % 256, Len(ext) % 256>> \o ext

\* Every (SCT, chain) of the inputs that parse_sct accepts.
ParsedWithChain ==
    {x \in ParseInputs \X (ParseChains \ {NULL}) :
        parse_sct(x[1], x[2], 0).rv = APR_SUCCESS}

\* C9: the signed data parse_sct builds for a chain is 0, 0, the SCT's eight
\* timestamp bytes, 0, 0, the leaf DER behind its 24-bit length and the
\* extensions behind their 16-bit length; it is the same for the same
\* (timestamp, leaf DER, extensions) and different otherwise.
C9_SignedInputExact ==
    p_res # NULL /\ p_cc # NULL /\ Deref(p_res).rv = APR_SUCCESS
        => LET f   == Deref(p_res).fields
               der == Deref(p_cc).leaf.der
               ext == ExtensionsOf(p_sct)
           IN  /\ f.signed_data = Ptr(PrescribedSignedInput(p_sct, der, ext))
               /\ f.signed_data_len = Len(PrescribedSignedInput(p_sct, der, ext))
               /\ \A e \in {<<>>, <<7>>, <<7, 8>>} :
                     SignedData([f EXCEPT !.extensions = IF e = <<>> THEN NULL ELSE Ptr(e)],
                                p_cc)
                        = [rv |-> APR_SUCCESS,
                           bytes |-> PrescribedSignedInput(p_sct, der, e)]
               /\ \A x \in ParsedWithChain :
                     LET f2 == parse_sct(x[1], x[2], 0).fields
                         same == /\ f2.timestamp = f.timestamp
                                 /\ Deref(x[2]).leaf.der = der
                                 /\ ExtensionsOf(x[1]) = ext
                     IN  same <=> (f2.signed_data = f.signed_data)

\* An SCT parsed for a chain of two certificates, another accepted SCT having
\* another timestamp.
C9_Witness ==
    /\ p_res # NULL /\ p_cc # NULL /\ Deref(p_res).rv = APR_SUCCESS
    /\ Len(Deref(p_cc).cert_arr) = 2
    /\ Deref(p_res).fields.timestamp = 3
    /\ Deref(p_res).fields.signed_data # NULL
    /\ \E x \in ParsedWithChain : parse_sct(x[1], x[2], 0).fields.timestamp = 1

-----------------------------------------------------------------------------
(* Properties of the framed SCT list (SpecFramed) *)

RECURSIVE FramedSize(_)
FramedSize(files) ==
    IF Len(files) = 0 THEN 0 ELSE 2 + Head(files).size + FramedSize(Tail(files))

\* C10 as stated: the blob collate_scts writes for any entries of at most
\* 65535 bytes each is decoded by deserialize_SCTs into exactly those entries,
\* in order.
C10_RoundTripAnyEntries ==
    f_res # NULL /\ (\A i \in 1..Len(f_xs) : f_xs[i].size <= 65535)
        => Deref(f_res) = [rv |-> APR_SUCCESS, all_scts |-> Entries(f_xs)]

\* C10: the blob collate_scts writes for entries whose framed size, two bytes
\* and the entry's bytes for each, is at most 65535 in all is decoded by
\* deserialize_SCTs into exactly those entries, in order.
C10_RoundTripWithinTotal ==
    f_res # NULL /\ FramedSize(f_xs) <= 65535
        => Deref(f_res) = [rv |-> APR_SUCCESS, all_scts |-> Entries(f_xs)]

\* Several entries, an empty one among them, came back; so did entries that
\* fill the 16-bit overall length to its last byte.
C10_Witness ==
    /\ f_res # NULL
    /\ \/ /\ Len(f_xs) = MaxEntries
          /\ \E i, j \in 1..Len(f_xs) : f_xs[i].size = 0 /\ f_xs[j].size = MaxEntryLen
       \/ FramedSize(f_xs) = 65535
    /\ Deref(f_res) = [rv |-> APR_SUCCESS, all_scts |-> Entries(f_xs)]

-----------------------------------------------------------------------------
(* Properties of the refresh pass and the store (SpecRefresh) *)

\* Two calls of refresh_scts_for_cert for directory d, one after the other,
\* both successful and with no failure injected.
TwoRefreshes(d, i) ==
    /\ i + 1 <= Len(hist.dir[d])
    /\ hist.dir[d][i].rv = APR_SUCCESS /\ ~hist.dir[d][i].faulted
    /\ hist.dir[d][i + 1].rv = APR_SUCCESS /\ ~hist.dir[d][i + 1].faulted

Fresh(file, max_sct_age, t) == file.mtime + max_sct_age >= t

\* C11: after a refresh with one set of logs and then with another, the SCT
\* file of every log that was dropped (A) is gone, that of every log that
\* stayed (B) is the file it was, data and mtime, if it was not older than
\* the maximum age, that of every log that came in (C) is there and was
\* fetched in the second refresh unless a fresh one was already there, and
\* the list file holds the second set.
C11_LogSetChange ==
    \A d \in Dirs : \A i \in 1..Len(hist.dir[d]) :
        TwoRefreshes(d, i) =>
            LET r1 == hist.dir[d][i]
                r2 == hist.dir[d][i + 1]
            IN  /\ \A L \in Members(r1.urls) \ Members(r2.urls) :
                       url_to_fn(L) \notin DOMAIN r2.after
                /\ \A L \in Members(r1.urls) \cap Members(r2.urls) :
                       /\ url_to_fn(L) \in DOMAIN r2.before
                       /\ url_to_fn(L) \in DOMAIN r2.after
                       /\ Fresh(r2.before[url_to_fn(L)], r2.max_sct_age, r2.t0)
                             => r2.after[url_to_fn(L)] = r2.before[url_to_fn(L)]
                /\ \A L \in Members(r2.urls) \ Members(r1.urls) :
                       /\ url_to_fn(L) \in DOMAIN r2.after
                       /\ \/ L \in r2.fetched
                          \/ /\ url_to_fn(L) \in DOMAIN r2.before
                             /\ Fresh(r2.before[url_to_fn(L)], r2.max_sct_age, r2.t0)
                /\ r2.after[LOGLIST_BASENAME].data = r2.urls

\* The logs {A, B} and then {B, C}: A's file was there and is gone, B's was
\* fresh and is untouched, C's was not there and has been fetched.
C11_Witness ==
    \E d \in Dirs : \E i \in 1..Len(hist.dir[d]) :
        /\ TwoRefreshes(d, i)
        /\ hist.dir[d][i].urls = <<"A", "B">>
        /\ hist.dir[d][i + 1].urls = <<"B", "C">>
        /\ url_to_fn("A") \in DOMAIN hist.dir[d][i + 1].before
        /\ url_to_fn("A") \notin DOMAIN hist.dir[d][i + 1].after
        /\ hist.dir[d][i + 1].after[url_to_fn("B")]
              = hist.dir[d][i + 1].before[url_to_fn("B")]
        /\ url_to_fn("C") \notin DOMAIN hist.dir[d][i + 1].before
        /\ "C" \in hist.dir[d][i + 1].fetched
        /\ hist.dir[d][i + 1].after[LOGLIST_BASENAME].data = <<"B", "C">>

\* The calls of refresh_scts_for_cert for d: those that returned and the
\* one under way.
Refreshes(d) ==
    {hist.dir[d][i] : i \in 1..Len(hist.dir[d])}
    \cup (IF daemon.cur # NULL /\ Deref(daemon.cur).d = d
          THEN {Deref(daemon.cur)} ELSE {})

IsAdminName(n) == n[Len(n)] = ".sct" /\ n[1] # "AUTO_"
IsAutoName(n) == n[Len(n)] = ".sct" /\ n[1] = "AUTO_"

SameFile(a, b, n) ==
    /\ n \in DOMAIN a <=> n \in DOMAIN b
    /\ n \in DOMAIN a => a[n] = b[n]

\* C13: when the fetch for a log fails, refresh_scts_for_cert returns the
\* failure at once: the failing log is the last one fetch_sct was called
\* for, collate_scts has not run, the file of the failing log is as it was
\* when the fetching began, and the temporary file and the published
\* collated file are as they were when the refresh began.
C13_FetchFailureAborts ==
    \A d \in Dirs : \A i \in 1..Len(hist.dir[d]) :
        LET r == hist.dir[d][i]
        IN  r.failed_fetch # NULL =>
               /\ r.rv # APR_SUCCESS
               /\ r.called[Len(r.called)] = Deref(r.failed_fetch)
               /\ \A k \in 1..Len(r.called) : r.called[k] = r.urls[k]
               /\ ~r.collated
               /\ SameFile(Deref(r.after_update), r.after,
                           url_to_fn(Deref(r.failed_fetch)))
               /\ SameFile(r.before, r.after, COLLATED_TMP)
               /\ SameFile(r.before, r.after, COLLATED_SCTS_BASENAME)

\* The fetch for the first of two logs failed while its earlier SCT and a
\* published collated file were in the directory.
C13_Witness ==
    \E d \in Dirs : \E i \in 1..Len(hist.dir[d]) :
        /\ Len(hist.dir[d][i].urls) = 2
        /\ hist.dir[d][i].failed_fetch = Ptr(hist.dir[d][i].urls[1])
        /\ hist.dir[d][i].called = <<hist.dir[d][i].urls[1]>>
        /\ url_to_fn(hist.dir[d][i].urls[1]) \in DOMAIN hist.dir[d][i].after
        /\ COLLATED_SCTS_BASENAME \in DOMAIN hist.dir[d][i].after
        /\ hist.dir[d][i].rv # APR_SUCCESS

\* The time an SCT carries, in microseconds: its 64-bit timestamp counts
\* milliseconds and follows the version byte and the log id.
TimeOfSct(sct) == BigEndian(SubSeq(sct, 34, 41)) * 1000

\* The SCTs of a published collated file.
PublishedScts(r) ==
    deserialize_SCTs(<<>>, r.after[COLLATED_SCTS_BASENAME].data).all_scts

\* C14: a collated file that collate_scts has put in place holds no SCT
\* whose timestamp was in the future when it was collated, and holds each
\* SCT file of the directory whose timestamp was not, once.
C14_NoFutureSctCollated ==
    \A d \in Dirs : \A i \in 1..Len(hist.dir[d]) :
        LET r == hist.dir[d][i]
        IN  r.published =>
               /\ \A k \in 1..Len(PublishedScts(r)) :
                      TimeOfSct(PublishedScts(r)[k]) <= r.tw
               /\ Members(PublishedScts(r))
                     = {r.after[n].data : n \in {m \in DOMAIN r.after :
                              /\ m[Len(m)] = ".sct"
                              /\ TimeOfSct(r.after[m].data) <= r.tw}}
               /\ Len(PublishedScts(r))
                     = Cardinality({m \in DOMAIN r.after :
                              /\ m[Len(m)] = ".sct"
                              /\ TimeOfSct(r.after[m].data) <= r.tw})

\* A directory with one SCT from the future and one from the past has been
\* collated, and the published file holds the one from the past alone.
C14_Witness ==
    \E d \in Dirs : \E i \in 1..Len(hist.dir[d]) :
        /\ hist.dir[d][i].published
        /\ Cardinality({m \in DOMAIN hist.dir[d][i].after : m[Len(m)] = ".sct"}) = 2
        /\ Cardinality(hist.dir[d][i].skipped) = 1
        /\ Len(PublishedScts(hist.dir[d][i])) = 1
        /\ TimeOfSct(PublishedScts(hist.dir[d][i])[1]) <= hist.dir[d][i].tw
        /\ \E m \in hist.dir[d][i].skipped :
              TimeOfSct(hist.dir[d][i].after[m].data) > hist.dir[d][i].tw

\* C15: every call of refresh_scts_for_cert that returns success has put a
\* newly written collated file in place, also when no SCT file qualified.
C15_SuccessReplacesCollated ==
    \A d \in Dirs : \A i \in 1..Len(hist.dir[d]) :
        LET r == hist.dir[d][i]
        IN  r.rv = APR_SUCCESS =>
               /\ r.published
               /\ COLLATED_SCTS_BASENAME \in DOMAIN r.after
               /\ r.after[COLLATED_SCTS_BASENAME].mtime >= r.t0

\* C16: a child in read_scts holds the mutex alone, the refresh is then not
\* between removing the old collated file and renaming the new one into
\* place, and what the child reads is a list some collation has written to
\* the end; it finds no file only if none has ever been in place or a
\* rename has failed.
C16_ReaderSeesWholeFile ==
    /\ reader.pc = "locked" =>
          /\ ssl_ct_sct_update = Ptr("child")
          /\ ~(daemon.pc = "rename" /\ daemon.replacing)
          /\ reader.got # NULL => Deref(reader.got) \in hist.complete[reader.d]
          /\ reader.got = NULL => (~reader.ever \/ reader.rename_failed)
    /\ (daemon.pc = "rename" /\ daemon.replacing) => ssl_ct_sct_update = Ptr("daemon")

\* A child reads the collated file of a directory whose collated file the
\* refresh is about to replace, and the refresh waits for the mutex.
C16_Witness ==
    /\ reader.pc = "locked"
    /\ daemon.pc = "lock"
    /\ CurDir = reader.d
    /\ reader.got # NULL
    /\ Deref(reader.got) # sct_dirs[reader.d][COLLATED_TMP].data

\* C17: in every pass that has ended, each configured certificate directory
\* has been refreshed, whatever happened to the others.
C17_EveryDirRefreshed ==
    \A k \in 1..Len(hist.pass) :
        hist.pass[k].attempted = Members(ctconf.cert_sct_dirs)

-----------------------------------------------------------------------------
(* Properties of the audit file (SpecAudit) *)

\* C18: save_server_data is called at most once for a cache key, and only
\* by a connection that validated the server's data itself, with success,
\* and whose insert put the entry in the cache; so the file holds at most
\* one record for a key.
C18_OneRecordPerKey ==
    /\ \A i, j \in 1..Len(audit.writes) :
          audit.writes[i].key = audit.writes[j].key => i = j
    /\ \A i \in 1..Len(audit.writes) :
          /\ conn[audit.writes[i].conn].tally # NULL
          /\ conn[audit.writes[i].conn].rv = APR_SUCCESS
          /\ ~conn[audit.writes[i].conn].hit
          /\ ~conn[audit.writes[i].conn].lost
          /\ APR_SUCCESS \in CachedVerdicts(audit.writes[i].key)
    /\ Len(audit.contents) <= Len(audit.writes)

\* Two connections have validated the same data with success, one of them
\* lost the insert, and one record has been written.
C18_Witness ==
    \E c1, c2 \in Done :
        /\ c1 # c2
        /\ conn[c1].key = conn[c2].key
        /\ conn[c1].rv = APR_SUCCESS /\ conn[c2].rv = APR_SUCCESS
        /\ conn[c1].tally # NULL /\ conn[c2].tally # NULL
        /\ conn[c2].lost
        /\ Len(audit.contents) = 1
        /\ audit.writes[1].conn = c1

\* The bytes of a record for a chain and the SCTs accepted.
RECURSIVE ExpectedItems(_, _)
ExpectedItems(tag, items) ==
    IF Len(items) = 0 THEN <<>>
    ELSE <<0, tag, Len(Head(items)) \div 256, Len(Head(items)) % 256>>
         \o Head(items) \o ExpectedItems(tag, Tail(items))

ExpectedRecord(ders, scts) ==
    <<0, 1>> \o ExpectedItems(2, ders) \o ExpectedItems(3, scts)

\* C19: each record in the audit file, while the file is there, is the
\* SERVER_START tag, the chain's certificates, leaf first, and SCT items for
\* as many SCTs as the connection's validation accepted, each one of its
\* SCTs.
C19_RecordHoldsAcceptedScts ==
    \A i \in 1..Len(audit.writes) :
        (audit.writes[i].outcome = "written" /\ audit.exists) =>
           \E accepted \in SUBSET (1..Len(audit.writes[i].scts)) :
              /\ Cardinality(accepted)
                    = Deref(conn[audit.writes[i].conn].tally).verification_successes
              /\ \E k \in 1..Len(audit.contents) :
                    audit.contents[k]
                      = ExpectedRecord(
                           [n \in 1..Len(audit.writes[i].cert_arr) |->
                               audit.writes[i].cert_arr[n].der],
                           SelectSeq(audit.writes[i].scts,
                                     LAMBDA s : \E a \in accepted :
                                                   audit.writes[i].scts[a] = s))

\* C20: once a write to the audit file has failed the file is closed,
\* forgotten and removed, every later call of save_server_data writes
\* nothing, and each connection returns what its validation and the
\* configuration decide.
C20_AuditFailureDisables ==
    /\ \A i, j \in 1..Len(audit.writes) :
          (i < j /\ audit.writes[i].outcome # "written")
             => audit.writes[j].outcome = "disabled"
    /\ (\E i \in 1..Len(audit.writes) : audit.writes[i].outcome = "failed")
          => audit.audit_file = NULL /\ ~audit.exists /\ audit.contents = <<>>
    /\ \A c \in Done :
          /\ conn[c].ret = IF sconf.proxy_awareness = PROXY_REQUIRE
                              /\ (conn[c].missing_sct_error \/ conn[c].validation_error)
                           THEN HTTP_FORBIDDEN ELSE OK
          /\ conn[c].tally # NULL =>
                conn[c].validation_error = (Deref(conn[c].tally).rv # APR_SUCCESS)
    /\ \A i \in 1..Len(audit.writes) :
          /\ conn[audit.writes[i].conn].ret = OK
          /\ APR_SUCCESS \in CachedVerdicts(audit.writes[i].key)

\* A write has failed, and a later connection with other data has been
\* validated with success and accepted without a record.
C20_Witness ==
    /\ Len(audit.writes) >= 2
    /\ audit.writes[1].outcome = "failed"
    /\ audit.writes[2].outcome = "disabled"
    /\ conn[audit.writes[1].conn].ret = OK
    /\ conn[audit.writes[2].conn].ret = OK
    /\ audit.audit_file = NULL

\* The calls of save_server_data that wrote their record.
WrittenCalls == SelectSeq(audit.writes, LAMBDA w : w.outcome = "written")

AuditIoFailed ==
    \/ \E i \in 1..Len(audit.writes) : audit.writes[i].outcome = "failed"
    \/ audit.exit_fault # "none"

-----------------------------------------------------------------------------
(* Properties of a child serving connections beside the refresh (SpecServe) *)

\* A step of a connection-serving callback or hook: the proxy hooks move
\* conn, the cache or the audit file, server_extension_callback_2 moves the
\* reader.
ServingStep ==
    \/ conn' # conn
    \/ cached_server_data' # cached_server_data
    \/ audit' # audit
    \/ reader' # reader

\* C22: a step of a connection-serving callback or hook changes no file of
\* the SCT store and runs no part of the refresh (no fetch, no update of the
\* log list, no collation), and what read_scts hands to
\* server_extension_callback_2 is the collated file as it is, or nothing.
C22_ServingLeavesStoreAlone ==
    [][ /\ ServingStep =>
              /\ sct_dirs' = sct_dirs
              /\ daemon' = daemon
              /\ hist' = hist
              /\ ctconf' = ctconf
        /\ (reader.pc = "idle" /\ reader'.pc = "locked") =>
              reader'.got
                 = IF ctutil_file_exists(sct_dirs[reader'.d], COLLATED_SCTS_BASENAME)
                   THEN Ptr(sct_dirs[reader'.d][COLLATED_SCTS_BASENAME].data)
                   ELSE NULL ]_vars

\* A proxy connection has been validated and the child has found nothing to
\* send to a client, with the refresh of that certificate on its way.
C22_Witness ==
    /\ \E c \in Done : conn[c].tally # NULL
    /\ reader.pc = "locked"
    /\ reader.rv = APR_ENOENT
    /\ daemon.pc \in {"fetch", "collate_open", "collate_write", "rename"}

-----------------------------------------------------------------------------
(* Properties of startup and of the daemon (SpecRefresh, SpecDaemon) *)

\* The last pass of ssl_ct_post_config that has ended, if any.
StartupPasses == {k \in 1..Len(hist.pass) : hist.pass[k].startup}

DaemonRunning == ~daemon.startup /\ daemon.pc \notin {"idle", "down"}

\* C23: startup is refused exactly when the refresh of ssl_ct_post_config
\* failed for a certificate directory, so never when no directory is
\* configured, and the daemon runs only after a startup refresh that
\* succeeded.
C23_StartupAbortedIffRefreshFailed ==
    /\ \A k \in StartupPasses :
          AbortsStartup(hist.pass[k].rv) <=> (hist.pass[k].failed # NULL)
    /\ daemon.pc = "down" =>
          /\ StartupPasses # {}
          /\ hist.pass[Len(hist.pass)].startup
          /\ hist.pass[Len(hist.pass)].failed # NULL
    /\ DaemonRunning =>
          \E k \in StartupPasses :
             /\ hist.pass[k].rv = APR_SUCCESS
             /\ \A j \in StartupPasses : j <= k

\* C24: without a signal the daemon never leaves its loop, whatever its
\* passes returned, and a certificate directory whose refresh failed in one
\* pass is refreshed again in the next pass.
C24_FailedCertRetriedNextPass ==
    /\ daemon.daemon_should_exit = 0 => daemon.pc # "exited"
    /\ \A k \in 1..Len(hist.pass) :
          (hist.pass[k].rv # APR_SUCCESS /\ daemon.daemon_should_exit = 0)
             => daemon.pc # "exited"
    /\ \A k \in 1..(Len(hist.pass) - 1) :
          hist.pass[k].failed # NULL
             => Deref(hist.pass[k].failed) \in hist.pass[k + 1].attempted

\* C25: the daemon begins no refresh pass once daemon_should_exit is set,
\* and once it is set the daemon leaves its loop.
C25_ExitsWithoutNewPass ==
    /\ [](~daemon.flagged)
    /\ (daemon.daemon_should_exit # 0) ~> (daemon.pc = "exited")

\* The number of steps the daemon process has before it at most, once told
\* to leave: the rest of the directory in hand, the directories after it,
\* and the test of the loop.
StepsPerDir == Len(ctconf.log_urls) + 5

DaemonRank(dm) ==
    LET left == (Len(ctconf.cert_sct_dirs) - dm.di) * StepsPerDir
    IN  CASE dm.pc = "exited"        -> 0
          [] dm.pc = "loop"          -> 1
          [] dm.pc = "rename"        -> 2 + left
          [] dm.pc = "lock"          -> 3 + left
          [] dm.pc = "collate_write" -> 4 + left
          [] dm.pc = "collate_open"  -> 5 + left
          [] dm.pc = "fetch"         -> 6 + Len(ctconf.log_urls) - dm.li + left
          [] dm.pc = "update"        -> 6 + Len(ctconf.log_urls) + left
          [] dm.pc = "sleep"
               -> 2 + (Len(ctconf.cert_sct_dirs) + 1) * StepsPerDir
          [] OTHER                   -> 0

\* Once daemon_should_exit is set, the daemon process always has a step to
\* take until it has exited, and each of its steps brings it nearer to its
\* exit; so under LiveDaemon it exits.
DaemonNearsExit ==
    [][ daemon.daemon_should_exit # 0 =>
           /\ (daemon.pc = "lock" => MutexFree(ssl_ct_sct_update))
           /\ daemon.pc \in {"exited", "loop", "sleep", "update", "fetch",
                             "collate_open", "collate_write", "lock", "rename"}
           /\ (daemon'.pc # daemon.pc \/ daemon'.di # daemon.di
                  \/ daemon'.li # daemon.li)
                 => DaemonRank(daemon') < DaemonRank(daemon) ]_vars

-----------------------------------------------------------------------------
(* Properties of the log trust registry (SpecValidate) *)

\* The SCTs of a tally that parse_sct accepted, by their place in the list,
\* while the connection's certificate chain is still held.
ParsedScts(c) ==
    LET t == Deref(conn[c].tally)
    IN  { i \in 1..Len(t.all_scts) :
            parse_sct(t.all_scts[i], conn[c].certs, 0).rv = APR_SUCCESS }

SctFields(c, i) == parse_sct(Deref(conn[c].tally).all_scts[i], conn[c].certs, 0).fields

\* The registered entries whose log id equals the SCT's.
MatchingEntries(sctf) ==
    IF sconf.log_ids = NULL THEN {}
    ELSE { j \in 1..Len(Deref(sconf.log_ids)) : Deref(sconf.log_ids)[j] = sctf.logid }

FirstMatch(sctf) == CHOOSE j \in MatchingEntries(sctf) : \A k \in MatchingEntries(sctf) : j <= k

\* The lookup of one parsed SCT in the configured registry: unknown-log iff no
\* entry matches, else the signature check under the first matching entry.
LookupDecides(sctf) ==
    LET keys == Deref(sconf.log_public_keys)
        ids  == Deref(sconf.log_ids)
        rv   == try_verify_signature(sctf, keys, ids)
    IN  /\ (rv = APR_NOTFOUND) <=> (MatchingEntries(sctf) = {})
        /\ MatchingEntries(sctf) # {}
             => /\ rv = verify_signature(sctf, keys[FirstMatch(sctf)])
                /\ rv \in {APR_SUCCESS, APR_EINVAL}
                /\ (rv = APR_SUCCESS)
                     <=> EVP_VerifyFinal(Deref(sctf.signed_data), Deref(sctf.sig),
                                         keys[FirstMatch(sctf)])

\* With a registry, a validation that ran to its end counted as unknown-log
\* exactly the parsed SCTs that no entry matches.
UnknownAreUnmatched(c) ==
    LET t == Deref(conn[c].tally)
    IN  /\ \A i \in ParsedScts(c) : LookupDecides(SctFields(c, i))
        /\ ~t.fault
             => /\ t.unknown_log_ids
                     = Cardinality({ i \in ParsedScts(c) :
                                       MatchingEntries(SctFields(c, i)) = {} })
                /\ t.nverify = Cardinality(ParsedScts(c)) - t.unknown_log_ids

\* C26: try_verify_signature returns APR_NOTFOUND iff no registered log id
\* equals the SCT's log id; an entry that matches gives the result of the
\* signature check under its key, never unknown-log; with no log public keys
\* configured every SCT is tallied as unknown-log and none as a success or a
\* failure of verification.
C26_UnknownIffNoMatch ==
    \A c \in Conns :
        Tallied(c) /\ conn[c].certs # NULL
            => LET t == Deref(conn[c].tally)
               IN  IF sconf.log_public_keys # NULL
                   THEN UnknownAreUnmatched(c)
                   ELSE ~t.fault
                          => /\ t.unknown_log_ids = Len(t.all_scts)
                             /\ t.verification_successes = 0
                             /\ t.verification_failures = 0

\* C26 as the code has it: the same with a registry; with no log public keys
\* configured no signature is checked and no success is tallied, every SCT
\* that parse_sct accepted is tallied as unknown-log, and a failure is tallied
\* for each of them whose timestamp is in the future, and for nothing else.
C26_UnknownIffNoMatchOfParsed ==
    \A c \in Conns :
        Tallied(c) /\ conn[c].certs # NULL
            => LET t == Deref(conn[c].tally)
               IN  IF sconf.log_public_keys # NULL
                   THEN UnknownAreUnmatched(c)
                   ELSE /\ t.verification_successes = 0
                        /\ t.nverify = 0
                        /\ t.unknown_log_ids <= Cardinality(ParsedScts(c))
                        /\ ~t.fault
                             => /\ t.unknown_log_ids = Cardinality(ParsedScts(c))
                                /\ t.verification_failures
                                     = Cardinality({ i \in ParsedScts(c) :
                                                       SctFields(c, i).time > t.t_now })

\* Two logs are configured and the SCT names the second: the first entry is
\* passed over, the signature verifies under the second entry's key, and
\* nothing is tallied as unknown.
C26_Witness ==
    \E c \in Conns :
        /\ Tallied(c) /\ conn[c].certs # NULL
        /\ sconf.log_ids = LogKeysUA.log_ids
        /\ Deref(conn[c].tally).all_scts = <<sOK>>
        /\ FirstMatch(SctFields(c, 1)) = 2
        /\ Deref(conn[c].tally).verification_successes = 1
        /\ Deref(conn[c].tally).unknown_log_ids = 0

-----------------------------------------------------------------------------
(* Properties of the validator's decoding of the channels (SpecValidate) *)

\* The framed list grammar: entries of a 16-bit length and that many bytes.
RECURSIVE WellFormedEntries(_)
WellFormedEntries(b) ==
    \/ Len(b) = 0
    \/ /\ Len(b) >= 2
       /\ 256 * b[1] + b[2] <= Len(b) - 2
       /\ WellFormedEntries(SubSeq(b, 3 + 256 * b[1] + b[2], Len(b)))

\* A 16-bit length of all that follows, then the entries.
WellFormedList(b) ==
    /\ Len(b) >= 2
    /\ 256 * b[1] + b[2] = Len(b) - 2
    /\ WellFormedEntries(SubSeq(b, 3, Len(b)))

ChannelsOf(c) ==
    { ch \in {conn[c].cert_sct_list, conn[c].serverhello_sct_list,
              conn[c].ocsp_sct_list} : ch # NULL }

\* C27: a connection one of whose channels is not a well-formed framed list,
\* be it by the overall length or by an entry's length, fails validation, and
\* no SCT of a partially decoded list is parsed or verified.
C27_MalformedChannelRejected ==
    \A c \in Conns :
        conn[c].tally # NULL /\ (\E ch \in ChannelsOf(c) : ~WellFormedList(Deref(ch)))
            => /\ Deref(conn[c].tally).rv # APR_SUCCESS
               /\ ~Deref(conn[c].tally).looped

-----------------------------------------------------------------------------
(* Properties of collation over files that do not parse (SpecRefresh) *)

SctFilesAfter(r) == {m \in DOMAIN r.after : m[Len(m)] = ".sct"}

Unparseable(r) ==
    {m \in SctFilesAfter(r) : parse_sct(r.after[m].data, NULL, 0).rv # APR_SUCCESS}

\* The SCT files that parse and are not from the future when collated.
Collatable(r) ==
    {m \in SctFilesAfter(r) \ Unparseable(r) : TimeOfSct(r.after[m].data) <= r.tw}

\* C28: a collation over a directory that holds an .sct file that does not
\* parse beside .sct files that are valid writes the valid ones to the new
\* collated file and publishes it.
C28_UnparseableSctRejectedAlone ==
    \A d \in Dirs : \A i \in 1..Len(hist.dir[d]) :
        LET r == hist.dir[d][i]
        IN  /\ r.tw # 0 /\ ~hist.rename_failed[d]
            /\ Unparseable(r) # {} /\ Collatable(r) # {}
            => /\ r.published
               /\ Members(PublishedScts(r)) = {r.after[m].data : m \in Collatable(r)}

-----------------------------------------------------------------------------
(* Properties of a validation over no SCT (SpecValidate) *)

\* C29: a connection whose channels delivered bytes that decode to no SCT at
\* all gets an error from validate_server_data without any SCT being looked
\* at; the failure is what the cache holds for its key, nothing is saved for
\* audit, and under PROXY_REQUIRE the connection is refused.
C29_NoSctIsFailure ==
    \A c \in Conns :
        conn[c].tally # NULL /\ Deref(conn[c].tally).all_scts = <<>>
            => /\ ChannelsOf(c) # {}
               /\ Deref(conn[c].tally).rv # APR_SUCCESS
               /\ ~Deref(conn[c].tally).looped
               /\ Deref(conn[c].tally).nparse = 0
               /\ conn[c].rv = Deref(conn[c].tally).rv
               /\ conn[c].validation_error
               /\ conn[c].pc = "done"
                    => /\ \A e \in cached_server_data :
                             e.key = Deref(conn[c].key)
                                => e.validation_result = conn[c].rv
                       /\ \E e \in cached_server_data : e.key = Deref(conn[c].key)
                       /\ ~conn[c].saved
                       /\ \A i \in 1..Len(audit.writes) : audit.writes[i].conn # c
                       /\ audit.contents = <<>>
                       /\ sconf.proxy_awareness = PROXY_REQUIRE
                            => conn[c].ret = HTTP_FORBIDDEN

\* Under PROXY_REQUIRE the ServerHello carried an empty list, the two bytes
\* of its length, and nothing else came: refused, the failure cached.
C29_Witness ==
    \E c \in Conns :
        /\ conn[c].pc = "done" /\ sconf.proxy_awareness = PROXY_REQUIRE
        /\ conn[c].cert_sct_list = NULL /\ conn[c].ocsp_sct_list = NULL
        /\ conn[c].serverhello_sct_list = Ptr(<<0, 0>>)
        /\ conn[c].tally # NULL /\ Deref(conn[c].tally).all_scts = <<>>
        /\ CachedVerdicts(Deref(conn[c].key)) = {APR_EINVAL}
        /\ audit.writes = <<>>
        /\ conn[c].ret = HTTP_FORBIDDEN

-----------------------------------------------------------------------------
(* Properties of the validation cache (Spec) *)

\* C30: no step removes an entry of the validation cache or changes its
\* verdict, and a step adds an entry only under a key that has none, so that
\* a key, once present, keeps the one verdict stored first.
C30_CacheOnlyGrows ==
    [][/\ cached_server_data \subseteq cached_server_data'
       /\ \A e \in cached_server_data' \ cached_server_data :
             \A x \in cached_server_data : x.key # e.key]_vars

-----------------------------------------------------------------------------
(* Properties of the locks of a child process (SpecAudit) *)

\* The audit file as the threads of the process share it.
AuditFileState ==
    <<audit.audit_file, audit.audit_file_nonempty, audit.exists, audit.contents,
      audit.perm>>

\* C31: a step changes the audit file, its handle or its non-empty flag only
\* as the step of a thread that holds audit_file_mutex, the cleanup at the
\* end of the process included, and changes the validation cache only as the
\* section of ssl_ct_ssl_proxy_post_handshake that runs under
\* cached_server_data_mutex.
C31_SharedMutationsUnderLock ==
    [][/\ AuditFileState' # AuditFileState
            => \E c \in Conns : /\ audit.mutex = Ptr(c)
                                /\ conn[c].pc = "save_locked"
                                /\ conn'[c].pc # "save_locked"
       /\ cached_server_data' # cached_server_data
            => \E c \in Conns : conn[c].pc = "insert" /\ conn'[c].pc # "insert"]_vars

\* The SCT files of the directory a refresh left whose timestamp was not in
\* the future when the refresh collated.
CurrentScts(r) ==
    {r.after[n].data : n \in {m \in DOMAIN r.after :
                                 /\ m[Len(m)] = ".sct"
                                 /\ TimeOfSct(r.after[m].data) <= r.tw}}

\* C32: after every call of refresh_scts_for_cert that returned success the
\* collated file of the directory holds the directory's SCT files whose
\* timestamp is not in the future and no other SCT, and holds none (or is not
\* there) when no SCT file is left or every one is from the future.
C32_PublishedIsCurrent ==
    \A d \in Dirs : \A i \in 1..Len(hist.dir[d]) :
        LET r == hist.dir[d][i]
        IN  r.rv = APR_SUCCESS =>
               IF COLLATED_SCTS_BASENAME \in DOMAIN r.after
               THEN Members(PublishedScts(r)) = CurrentScts(r)
               ELSE CurrentScts(r) = {}

-----------------------------------------------------------------------------
(* Properties of the hooks of a connection, continued (SpecValidate) *)

\* C33: whichever of ssl_ct_ssl_proxy_verify, client_extension_callback_2 and
\* ocsp_resp_cb ran before it, ssl_ct_ssl_proxy_post_handshake ends with a
\* status: it computes a key and validates only with a chain that
\* ssl_ct_ssl_proxy_verify recorded, and where it computes no key it has
\* returned OK or HTTP_FORBIDDEN.
C33_PostHandshakeAlwaysCompletes ==
    \A c \in Conns :
        conn[c].pc # "handshake" =>
            /\ conn[c].key # NULL => conn[c].leaf_seen # NULL
            /\ conn[c].tally # NULL => conn[c].leaf_seen # NULL
            /\ conn[c].key = NULL =>
                  conn[c].pc = "done" /\ conn[c].ret \in {OK, HTTP_FORBIDDEN}

\* What a connection would hold after ssl_ct_ssl_proxy_verify saw the chain
\* and the two callbacks delivered sh and st (NULL: the callback did not run).
Observed(chain, sh, st) ==
    [ProxyVerify(IdleConn, chain, sconf) EXCEPT !.serverhello_sct_list = sh,
                                                !.ocsp_sct_list = st]

\* The observations a backend of this peer can give rise to.
Observations ==
    {Observed(chain, sh, st) :
        chain \in {ch \in peer.chains : Len(ch) >= 1},
        sh \in {NULL} \cup {Ptr(b) : b \in peer.serverhello},
        st \in {NULL} \cup {Ptr(b) : b \in peer.ocsp}}

\* The same leaf certificate, and on each channel the same bytes or none.
SameObservation(a, b) ==
    /\ a.leaf_seen = b.leaf_seen
    /\ a.cert_sct_list = b.cert_sct_list
    /\ a.serverhello_sct_list = b.serverhello_sct_list
    /\ a.ocsp_sct_list = b.ocsp_sct_list

\* C34: with a collision-free digest, the key gen_key computed for a
\* connection is the key of no other observation: an observation with the
\* same key has the same leaf certificate and, on each of the three
\* channels, the same bytes.
C34_KeyDistinguishesObservations ==
    \A c \in Conns :
        conn[c].key # NULL =>
            \A o \in Observations :
                gen_key(o.certs, o) = Deref(conn[c].key) => SameObservation(conn[c], o)

-----------------------------------------------------------------------------
(* Properties of the timestamp test of validate_server_data (SpecValidate) *)

\* The SCTs of a tally that parse_sct accepted and whose timestamp was in the
\* future when they were validated.
FutureScts(c) ==
    {i \in ParsedScts(c) : SctFields(c, i).time > Deref(conn[c].tally).t_now}

\* C35: an SCT with a timestamp in the future is tallied as a failure and not
\* as a success: no more successes are tallied than SCTs that are not from
\* the future, and a connection all of whose SCTs are from the future is not
\* validated with success, whatever their signatures.
C35_FutureSctNeverSucceeds ==
    \A c \in Conns :
        Tallied(c) /\ conn[c].certs # NULL
            => LET t == Deref(conn[c].tally)
               IN  /\ t.verification_failures >= Cardinality(FutureScts(c))
                   /\ t.verification_successes
                         <= Cardinality(ParsedScts(c) \ FutureScts(c))
                   /\ (Len(t.all_scts) > 0 /\ FutureScts(c) = 1..Len(t.all_scts))
                         => t.rv # APR_SUCCESS

-----------------------------------------------------------------------------
(* Properties of the refresh, continued (SpecRefresh) *)

\* The list file a refresh found holds a line that apr_uri_parse rejects.
OldListHasGarbage(r) ==
    /\ r.had_list
    /\ \E k \in 1..Len(r.before[LOGLIST_BASENAME].data) :
          apr_uri_parse(r.before[LOGLIST_BASENAME].data[k]) # APR_SUCCESS

\* C36: a refresh in which nothing else failed and whose old list file holds
\* an unparseable URL goes on as if the line were not there: the new list is
\* recorded, the files removed are those of the parseable URLs that are no
\* longer configured, and the refresh goes on to collate.
C36_GarbageUrlIgnored ==
    \A d \in Dirs : \A i \in 1..Len(hist.dir[d]) :
        LET r == hist.dir[d][i]
        IN  (OldListHasGarbage(r) /\ ~r.faulted) =>
               /\ r.after_update # NULL
               /\ Deref(r.after_update)[LOGLIST_BASENAME].data = r.urls
               /\ \A n \in (DOMAIN r.before) \ DOMAIN Deref(r.after_update) :
                     \E k \in 1..Len(r.before[LOGLIST_BASENAME].data) :
                        LET L == r.before[LOGLIST_BASENAME].data[k]
                        IN  /\ apr_uri_parse(L) = APR_SUCCESS
                            /\ L \notin Members(r.urls)
                            /\ n = url_to_fn(L)
               /\ r.collated

\* C37: when collate_scts has returned an error, the collated file that was
\* in place before it is in place still, with the data and mtime it had.
C37_FailedCollateKeepsPublished ==
    \A d \in Dirs : \A i \in 1..Len(hist.dir[d]) :
        LET r == hist.dir[d][i]
        IN  (r.collated /\ r.rv # APR_SUCCESS
                 /\ COLLATED_SCTS_BASENAME \in DOMAIN r.before)
               => /\ COLLATED_SCTS_BASENAME \in DOMAIN r.after
                  /\ r.after[COLLATED_SCTS_BASENAME] = r.before[COLLATED_SCTS_BASENAME]

-----------------------------------------------------------------------------
(* Properties of the supervision of the daemon (SpecMaint) *)

\* C38: a call of daemon_maint for a daemon that died starts a new daemon
\* exactly when the MPM could be asked, the server is not stopping or
\* restarting, and the status is not DAEMON_STARTUP_ERROR; a call for a
\* restart of the server starts none; a call for a daemon that was lost
\* starts one.  The daemon started runs and is registered again, unless the
\* fork failed, and where none is started the process is left as it was.
C38_DaemonMaintDecides ==
    [][oc'.calls # oc.calls =>
          LET l == Deref(oc'.last)
              stopping == l.mpm_rv # APR_SUCCESS \/ l.mpm_state = AP_MPMQ_STOPPING
          IN  /\ l.reason = APR_OC_REASON_DEATH
                    => (l.started <=> (~stopping /\ l.status # DAEMON_STARTUP_ERROR))
              /\ l.reason = APR_OC_REASON_RESTART => ~l.started
              /\ l.reason = APR_OC_REASON_LOST => l.started
              /\ (l.started /\ l.ret = OK)
                    => /\ oc'.proc = "running" /\ oc'.registered
                       /\ oc'.starts = oc.starts + 1
              /\ ~l.started => oc'.proc = oc.proc /\ oc'.starts = oc.starts]_vars

\* A daemon that was restarted after its death has died with the startup
\* error while the server was running, and has not been started again.
C38_Witness ==
    /\ oc.last # NULL
    /\ Deref(oc.last).reason = APR_OC_REASON_DEATH
    /\ Deref(oc.last).status = DAEMON_STARTUP_ERROR
    /\ Deref(oc.last).mpm_rv = APR_SUCCESS
    /\ Deref(oc.last).mpm_state = AP_MPMQ_RUNNING
    /\ ~Deref(oc.last).started
    /\ oc.starts = 1
    /\ oc.proc = "dead"
    /\ ~oc.registered

-----------------------------------------------------------------------------
(* Properties of the configuration (SpecConfig) *)

\* C39: every call of refresh_scts_for_cert that refresh_all_scts makes, for
\* the main server or a virtual host, is given the list of log URL strings
\* that corresponds to the list of log URLs element for element, and the
\* executable of the global CTToolsDir.
C39_RefreshUsesGlobalSettings ==
    \A k \in 1..Len(servers.used) :
        LET u == servers.used[k]
        IN  /\ (u.log_urls = NULL) <=> (u.log_url_strs = NULL)
            /\ u.log_urls # NULL =>
                  /\ Len(Deref(u.log_url_strs)) = Len(Deref(u.log_urls))
                  /\ \A i \in 1..Len(Deref(u.log_urls)) :
                        Deref(u.log_url_strs)[i] = apr_uri_unparse(Deref(u.log_urls)[i])
            /\ u.ct_exe = servers.conf[1].ct_exe

-----------------------------------------------------------------------------
(* Properties of the locks, continued (SpecServe) *)

====
